---- MODULE Spec2Model ----
(***************************************************************************)
(* Compressed sparse matrix (CSR/CSC) of cupyx.scipy.sparse._compressed:   *)
(* batch set / zero / insert, sum_duplicates, minor outer indexing and the *)
(* per-row min/max reductions, expressed over the major (indptr-indexed)   *)
(* and minor (indices-valued) axes, i.e. after _swap has been applied.     *)
(*                                                                         *)
(* Arrays are sequences; the element the code calls a[k] is At(a, k).      *)
(***************************************************************************)
EXTENDS Integers, Sequences, FiniteSets, TLC

VARIABLES
    shape,      \* <<major_dim, minor_dim>> of the matrix (self._shape, swapped)
    indptr,     \* self.indptr
    indices,    \* self.indices
    data,       \* self.data
    sortedFlag, \* self._has_sorted_indices: "Unknown" (no attribute), "True", "False"
    canonFlag,  \* self._has_canonical_format, likewise
    pc,         \* position inside the running call ("idle" between calls)
    pend,       \* the arrays _perform_insert has built and not yet assigned
    last,       \* the last call: its name, arguments, outcome and the matrix before it
    idx,        \* _minor_index_fancy: the index array
    col_counts, \* occurrences in idx of every minor index value
    col_order,  \* cupy.argsort(idx)
    col_offset, \* cupy.cumsum(col_counts)
    Bp,         \* index pointer of the result
    Bj,         \* indices of the result
    Bx,         \* data of the result
    row_ptr,    \* fill_B: the write cursor of every row (block), -1 until seeded
    lane,       \* fill_B: per stored entry, where its thread stands
    writes,     \* fill_B: how many times every output slot has been written
    out_shape,  \* dimensions of the result
    out         \* _minor_reduce: the reduced value of every major index

mvars == <<shape, indptr, indices, data, sortedFlag, canonFlag, pend>>

fvars == <<idx, col_counts, col_order, col_offset, Bp, Bj, Bx, row_ptr, lane, writes,
           out_shape, out>>

vars == <<shape, indptr, indices, data, sortedFlag, canonFlag, pc, pend, last,
          idx, col_counts, col_order, col_offset, Bp, Bj, Bx, row_ptr, lane, writes,
          out_shape, out>>

(***************************************************************************)
(* Bounds of the model                                                     *)
(***************************************************************************)
\* side of the matrices the mutation operations are explored on
MaxDim == 2
\* stored entries of an initial matrix
MaxInitNnz == 2
\* coordinates of one batch
MaxBatch == 2

\* values an initial matrix stores, and values a batch assigns
InitValues == {5}
XValues == {7, 9}

(***************************************************************************)
(* Arrays                                                                  *)
(***************************************************************************)
At(a, k) == a[k + 1]

RECURSIVE SumSeq(_)
SumSeq(s) == IF s = <<>> THEN 0 ELSE Head(s) + SumSeq(Tail(s))

\* cupy.cumsum
cumsum(s) == [k \in 1..Len(s) |-> SumSeq(SubSeq(s, 1, k))]

\* cupy.diff
diff(s) == [k \in 1..(Len(s) - 1) |-> s[k + 1] - s[k]]

SeqMax(s) == CHOOSE v \in {s[k] : k \in 1..Len(s)} : \A k \in 1..Len(s) : s[k] <= v
SeqMin(s) == CHOOSE v \in {s[k] : k \in 1..Len(s)} : \A k \in 1..Len(s) : v <= s[k]

\* the elements of s at the positions where keep is TRUE, in order (s[mask])
RECURSIVE Select(_, _)
Select(s, keep) ==
    IF s = <<>> THEN <<>>
    ELSE (IF Head(keep) THEN <<Head(s)>> ELSE <<>>) \o Select(Tail(s), Tail(keep))

\* the positions of ord with position e inserted after every position whose key
\* is not above keys[e]
RECURSIVE InsertByKey(_, _, _)
InsertByKey(e, ord, keys) ==
    IF ord = <<>> THEN <<e>>
    ELSE IF keys[e] < keys[Head(ord)] THEN <<e>> \o ord
    ELSE <<Head(ord)>> \o InsertByKey(e, Tail(ord), keys)

RECURSIVE ArgsortUpTo(_, _)
ArgsortUpTo(keys, n) ==
    IF n = 0 THEN <<>> ELSE InsertByKey(n, ArgsortUpTo(keys, n - 1), keys)

\* cupy.argsort, stable: the positions (1-based) of keys in non-decreasing key
\* order, equal keys in their original order
argsort(keys) == ArgsortUpTo(keys, Len(keys))

\* s.take(order)
take(s, order) == [k \in 1..Len(order) |-> s[order[k]]]

(***************************************************************************)
(* The matrix                                                              *)
(***************************************************************************)
Mat(p, j, d) == [indptr |-> p, indices |-> j, data |-> d]

Self == Mat(indptr, indices, data)

nnz(A) == Len(A.data)

\* the storage offsets (0-based) of major index r
RowRange(Ap, r) == At(Ap, r) .. (At(Ap, r + 1) - 1)

\* the structural invariants of a compressed matrix with dimensions M, N
WellFormed(A, M, N) ==
    /\ Len(A.indptr) = M + 1
    /\ Len(A.data) = Len(A.indices)
    /\ At(A.indptr, 0) = 0
    /\ \A r \in 0..(M - 1) : At(A.indptr, r) <= At(A.indptr, r + 1)
    /\ At(A.indptr, M) = Len(A.data)
    /\ \A k \in 1..Len(A.indices) : A.indices[k] \in 0..(N - 1)

\* _has_sorted_indices_kern, and-ed over the rows
has_sorted_indices_kern(Ap, Aj) ==
    \A r \in 0..(Len(Ap) - 2) :
        \A jj \in At(Ap, r)..(At(Ap, r + 1) - 2) : ~(At(Aj, jj) > At(Aj, jj + 1))

\* _has_canonical_format_kern, and-ed over the rows
has_canonical_format_kern(Ap, Aj) ==
    \A r \in 0..(Len(Ap) - 2) :
        /\ ~(At(Ap, r) > At(Ap, r + 1))
        /\ \A jj \in At(Ap, r)..(At(Ap, r + 1) - 2) : ~(At(Aj, jj) >= At(Aj, jj + 1))

\* scalar get: the stored values of row `major` at minor index `minor`, summed
get_intXint(A, major, minor) ==
    LET hits == Select(A.data,
                       [k \in 1..Len(A.data) |->
                           /\ (k - 1) \in RowRange(A.indptr, major)
                           /\ A.indices[k] = minor])
    IN SumSeq(hits)

\* the storage offsets holding coordinate (major, minor)
Offsets(A, major, minor) ==
    {p \in RowRange(A.indptr, major) : At(A.indices, p) = minor}

(***************************************************************************)
(* Number conversions                                                      *)
(***************************************************************************)
\* significand width of cupy.float32, the type the entry IDs are carried in
Float32Bits == 24
RECURSIVE Float32Spacing(_)
Float32Spacing(n) == IF n < 2^Float32Bits THEN 1 ELSE 2 * Float32Spacing(n \div 2)

\* the float32 nearest to the integer n (ties to even); negative n by symmetry
Float32(n) ==
    LET a == IF n < 0 THEN -n ELSE n
        s == Float32Spacing(a)
        q == a \div s
        rem == a % s
        up == (2 * rem > s) \/ (2 * rem = s /\ q % 2 = 1)
        r == IF up THEN (q + 1) * s ELSE q * s
    IN IF n < 0 THEN -r ELSE r

\* .astype(cupy.int32) of an integral float32: exact, the integers of the model
\* being those of the int32 range
AsInt32(v) == v

(***************************************************************************)
(* Inner (array x array) lookup                                            *)
(***************************************************************************)
\* _index._csr_sample_values: one lookup per coordinate (negative coordinates
\* count from the end); the matching stored values summed, not_found_val if none
csr_sample_values(n_row, n_col, Ap, Aj, Ax, Qi, Qj, not_found_val) ==
    [k \in 1..Len(Qi) |->
        LET r == IF Qi[k] < 0 THEN Qi[k] + n_row ELSE Qi[k]
            c == IF Qj[k] < 0 THEN Qj[k] + n_col ELSE Qj[k]
            hits == Select(Ax, [q \in 1..Len(Ax) |->
                                   (q - 1) \in RowRange(Ap, r) /\ Aj[q] = c])
        IN IF hits = <<>> THEN not_found_val ELSE SumSeq(hits)]

get_arrayXarray(A, M, N, major, minor, not_found_val) ==
    csr_sample_values(M, N, A.indptr, A.indices, A.data, major, minor, not_found_val)

(***************************************************************************)
(* Batch set / zero / insert                                               *)
(***************************************************************************)
NoError == [kind |-> "none", idx |-> 0, bound |-> 0]

\* check_bounds with the lower test off by one: -bound itself is refused
check_bounds_strict(ind, bound) ==
    IF SeqMax(ind) >= bound
    THEN [kind |-> "IndexError", idx |-> SeqMax(ind), bound |-> bound]
    ELSE IF SeqMin(ind) <= -bound
    THEN [kind |-> "IndexError", idx |-> SeqMin(ind), bound |-> -bound]
    ELSE NoError

\* indices.max() of an array without elements raises before any comparison
check_bounds(ind, bound) ==
    IF Len(ind) = 0
    THEN [kind |-> "ValueError", idx |-> 0, bound |-> 0]
    ELSE IF SeqMax(ind) >= bound
    THEN [kind |-> "IndexError", idx |-> SeqMax(ind), bound |-> bound]
    ELSE IF SeqMin(ind) < -bound
    THEN [kind |-> "IndexError", idx |-> SeqMin(ind), bound |-> -bound]
    ELSE NoError

\* the error _prepare_indices raises for the batch (i, j), NoError if none
prepare_indices(i, j, M, N) ==
    IF check_bounds(i, M) # NoError THEN check_bounds(i, M) ELSE check_bounds(j, N)

\* cupy.arange(nnz, dtype=cupy.float32)
EntryIds(n) == [k \in 1..n |-> Float32(k - 1)]

\* new_sp._get_arrayXarray(i, j, not_found_val=-1).astype(cupy.int32): for each
\* coordinate the offset of its stored entry, -1 if it has none
lookup_offsets(A, M, N, i, j) ==
    LET new_sp == Mat(A.indptr, A.indices, EntryIds(nnz(A)))
        val == get_arrayXarray(new_sp, M, N, i, j, -1)
    IN [k \in 1..Len(i) |-> AsInt32(Float32(val[k]))]

\* d[offs] = xs with the values taken in the wrong order
scatter_misaligned(d, offs, xs) ==
    {[q \in 1..Len(d) |->
        IF \E k \in 1..Len(offs) : offs[k] % Len(d) = q - 1
        THEN xs[Len(xs) + 1 - (CHOOSE k \in 1..Len(offs) : offs[k] % Len(d) = q - 1)]
        ELSE d[q]]}

\* d[offs] = xs: every offset is written (an offset past the end wraps around);
\* when several elements name the same offset any one of them may be the one
\* that stays, so the result is a set of arrays
scatter(d, offs, xs) ==
    LET n == Len(d)
        W(p) == {k \in 1..Len(offs) : offs[k] % n = p}
        written == {p \in 0..(n - 1) : W(p) # {}}
        winners == {w \in [written -> 1..Len(offs)] : \A p \in written : w[p] \in W(p)}
    IN {[q \in 1..n |-> IF (q - 1) \in written THEN xs[w[q - 1]] ELSE d[q]] :
            w \in winners}

\* _index._select_last_indices: the batch ordered by (i, j), only the last
\* occurrence of every coordinate kept
select_last_indices(i, j, x) ==
    LET o1 == argsort(j)
        o2 == argsort(take(i, o1))
        order == take(o1, o2)
        si == take(i, order)
        sj == take(j, order)
        sx == take(x, order)
        mask == [k \in 1..Len(si) |->
                    ~(k < Len(si) /\ si[k] = si[k + 1] /\ sj[k] = sj[k + 1])]
    IN [i |-> Select(si, mask), j |-> Select(sj, mask), x |-> Select(sx, mask)]

\* the rows' entries merged as the populate kernel walks them: the existing entry
\* first when its index is below the inserted one, else the inserted one
RECURSIVE MergeRow(_, _)
MergeRow(ex, ins) ==
    IF ex = <<>> THEN ins
    ELSE IF ins = <<>> THEN ex
    ELSE IF Head(ex)[1] < Head(ins)[1]
         THEN <<Head(ex)>> \o MergeRow(Tail(ex), ins)
         ELSE <<Head(ins)>> \o MergeRow(ex, Tail(ins))

\* the <<index, value>> pairs stored at offsets lo .. hi - 1
Pairs(Aj, Ax, lo, hi) == [k \in 1..(hi - lo) |-> <<Aj[lo + k], Ax[lo + k]>>]

\* _index._insert_many_populate_arrays: row r of the output, written from Bptr[r]
\* on, interleaves the row's existing entries with its inserted ones; a slot no
\* row writes keeps the -1 the kernel starts from
insert_many_populate_arrays(ins_j, ins_x, ins_ptr, Ap, Aj, Ax, Bptr, out_nnz) ==
    LET rowOut(r) == MergeRow(Pairs(Aj, Ax, At(Ap, r), At(Ap, r + 1)),
                              Pairs(ins_j, ins_x, At(ins_ptr, r), At(ins_ptr, r + 1)))
        writers(q) == {r \in 0..(Len(Ap) - 2) :
                          At(Bptr, r) <= q /\ q < At(Bptr, r) + Len(rowOut(r))}
        slot(q) == IF writers(q) = {} THEN <<-1, -1>>
                   ELSE LET r == CHOOSE r \in writers(q) : TRUE
                        IN rowOut(r)[q - At(Bptr, r) + 1]
    IN [indices |-> [q \in 1..out_nnz |-> slot(q - 1)[1]],
        data |-> [q \in 1..out_nnz |-> slot(q - 1)[2]]]

\* _perform_insert without the prefix sum over the per-row counts
perform_insert_no_cumsum(A, indices_inserts, data_inserts, rows, row_counts) ==
    LET M == Len(A.indptr) - 1
        add(r) == SumSeq([k \in 1..Len(rows) |-> IF rows[k] = r THEN row_counts[k] ELSE 0])
        new_indptr == <<0>> \o [r \in 1..M |-> diff(A.indptr)[r] + add(r - 1)]
        out_nnz == new_indptr[Len(new_indptr)]
        new_indptr_lookup == cumsum(<<0>> \o [r \in 1..M |-> add(r - 1)])
        filled == insert_many_populate_arrays(indices_inserts, data_inserts,
                      new_indptr_lookup, A.indptr, A.indices, A.data, new_indptr, out_nnz)
    IN Mat(new_indptr, filled.indices, filled.data)

\* _perform_insert: the three arrays it builds
perform_insert(A, indices_inserts, data_inserts, rows, row_counts) ==
    LET M == Len(A.indptr) - 1
        add(r) == SumSeq([k \in 1..Len(rows) |-> IF rows[k] = r THEN row_counts[k] ELSE 0])
        indptr_diff == [r \in 1..M |-> diff(A.indptr)[r] + add(r - 1)]
        new_indptr == cumsum(<<0>> \o indptr_diff)
        out_nnz == new_indptr[Len(new_indptr)]
        new_indptr_lookup == cumsum(<<0>> \o [r \in 1..M |-> add(r - 1)])
        filled == insert_many_populate_arrays(indices_inserts, data_inserts,
                      new_indptr_lookup, A.indptr, A.indices, A.data, new_indptr, out_nnz)
    IN Mat(new_indptr, filled.indices, filled.data)

\* cupy.unique: the distinct values of s in increasing order
unique(s) ==
    LET vals == {s[k] : k \in 1..Len(s)}
        sorted == argsort(s)
        first == [k \in 1..Len(s) |-> k = 1 \/ s[sorted[k]] # s[sorted[k - 1]]]
    IN Select(take(s, sorted), first)

\* _insert_many without the selection of the last occurrence per coordinate
insert_many_no_dedupe(A, i, j, x) ==
    LET o1 == argsort(j)
        order == take(o1, argsort(take(i, o1)))
        si == take(i, order)
        rows == unique(si)
        row_counts == [k \in 1..Len(rows) |->
                          Cardinality({q \in 1..Len(si) : si[q] = rows[k]})]
    IN perform_insert(A, take(j, order), take(x, order), rows, row_counts)

\* _insert_many: the matrix after inserting x at (i, j)
insert_many(A, i, j, x) ==
    LET order == argsort(i)
        sel == select_last_indices(take(i, order), take(j, order), take(x, order))
        rows == unique(sel.i)
        row_counts == [k \in 1..Len(rows) |->
                          Cardinality({q \in 1..Len(sel.i) : sel.i[q] = rows[k]})]
    IN perform_insert(A, sel.j, sel.x, rows, row_counts)

\* what a call leaves behind: the matrix, the error raised (NoError if none),
\* whether the structural-change warning was emitted, and the matrix as it stood
\* after the in-place writes, before any insertion
Outcome(A, err, warned, mid) == [mat |-> A, err |-> err, warned |-> warned, mid |-> mid]

\* _set_many: the possible outcomes of setting x at (i, j)
set_many(A, M, N, i, j, x) ==
    IF prepare_indices(i, j, M, N) # NoError
    THEN {Outcome(A, prepare_indices(i, j, M, N), FALSE, A)}
    ELSE
      LET offsets == lookup_offsets(A, M, N, i, j)
          mask == [k \in 1..Len(i) |-> offsets[k] > -1]
          absent == [k \in 1..Len(i) |-> ~mask[k]]
          ni == [k \in 1..Len(i) |-> IF i[k] < 0 THEN i[k] + M ELSE i[k]]
          nj == [k \in 1..Len(j) |-> IF j[k] < 0 THEN j[k] + N ELSE j[k]]
      IN { LET B == Mat(A.indptr, A.indices, d)
           IN IF \A k \in 1..Len(i) : mask[k]
              THEN Outcome(B, NoError, FALSE, B)
              ELSE Outcome(insert_many(B, Select(ni, absent), Select(nj, absent),
                                       Select(x, absent)),
                           NoError, TRUE, B)
           : d \in scatter(A.data, Select(offsets, mask), Select(x, mask)) }

\* _zero_many: the possible outcomes of zeroing the stored entries at (i, j)
zero_many(A, M, N, i, j) ==
    IF prepare_indices(i, j, M, N) # NoError
    THEN {Outcome(A, prepare_indices(i, j, M, N), FALSE, A)}
    ELSE
      LET offsets == lookup_offsets(A, M, N, i, j)
          mask == [k \in 1..Len(i) |-> offsets[k] > -1]
          found == Select(offsets, mask)
      IN { LET B == Mat(A.indptr, A.indices, d)
           IN Outcome(B, NoError, FALSE, B)
           : d \in scatter(A.data, found, [k \in 1..Len(found) |-> 0]) }

(***************************************************************************)
(* Cached flags and sum_duplicates                                         *)
(***************************************************************************)
FlagOf(b) == IF b THEN "True" ELSE "False"

get_has_canonical_format_cached(A, sf, cf) ==
    IF nnz(A) = 0 THEN "True"
    ELSE IF cf = "Unknown" THEN FlagOf(has_canonical_format_kern(A.indptr, A.indices))
    ELSE cf

\* __get_has_canonical_format: the cached flag after the read (the value returned)
get_has_canonical_format(A, sf, cf) ==
    IF nnz(A) = 0 THEN "True"
    ELSE IF sf = "False" THEN "False"
    ELSE IF cf = "Unknown" THEN FlagOf(has_canonical_format_kern(A.indptr, A.indices))
    ELSE cf

\* __get_sorted: the cached flag after the read (the value returned)
get_sorted(A, sf) ==
    IF nnz(A) = 0 THEN "True"
    ELSE IF sf = "Unknown" THEN FlagOf(has_sorted_indices_kern(A.indptr, A.indices))
    ELSE sf

RECURSIVE SortedSeqOf(_)
SortedSeqOf(S) ==
    IF S = {} THEN <<>>
    ELSE LET m == CHOOSE v \in S : \A w \in S : v <= w
         IN <<m>> \o SortedSeqOf(S \ {m})

RECURSIVE Concat(_)
Concat(ss) == IF ss = <<>> THEN <<>> ELSE Head(ss) \o Concat(Tail(ss))

\* tocoo / coo.sum_duplicates / asformat: the entries grouped by (major, minor),
\* the values of a group summed, every row in increasing minor order
coo_sum_duplicates(A) ==
    LET M == Len(A.indptr) - 1
        cols(r) == SortedSeqOf({At(A.indices, p) : p \in RowRange(A.indptr, r)})
        rowJ == [r \in 1..M |-> cols(r - 1)]
        rowX == [r \in 1..M |->
                    [k \in 1..Len(cols(r - 1)) |-> get_intXint(A, r - 1, cols(r - 1)[k])]]
    IN Mat(cumsum(<<0>> \o [r \in 1..M |-> Len(rowJ[r])]), Concat(rowJ), Concat(rowX))

sum_duplicates_keep_flags(A, sf, cf) ==
    IF get_has_canonical_format(A, sf, cf) = "True"
    THEN [mat |-> A, sortedFlag |-> sf, canonFlag |-> "True"]
    ELSE [mat |-> coo_sum_duplicates(A), sortedFlag |-> sf, canonFlag |-> cf]

\* sum_duplicates: the matrix and the two cached flags after the call
sum_duplicates(A, sf, cf) ==
    IF get_has_canonical_format(A, sf, cf) = "True"
    THEN [mat |-> A, sortedFlag |-> sf, canonFlag |-> "True"]
    ELSE [mat |-> coo_sum_duplicates(A), sortedFlag |-> "True", canonFlag |-> "True"]

(***************************************************************************)
(* Inputs                                                                  *)
(***************************************************************************)
M == shape[1]
N == shape[2]

\* the well-formed matrices of dimensions m x n with c stored entries (rows in
\* any order, duplicates allowed)
MatricesOver(m, n, c, V) ==
    { Mat(p, j, d) :
        p \in {q \in [1..(m + 1) -> 0..c] :
                  /\ q[1] = 0
                  /\ q[m + 1] = c
                  /\ \A r \in 1..m : q[r] <= q[r + 1]},
        j \in [1..c -> 0..(n - 1)],
        d \in [1..c -> V] }

MatricesOfNnz(m, n, c) == MatricesOver(m, n, c, InitValues)

\* the matrices a run starts from: every well-formed one with at most MaxInitNnz
\* stored entries
InitMatrices(m, n) == UNION {MatricesOfNnz(m, n, c) : c \in 0..MaxInitNnz}

\* the same, and every canonical matrix whatever its number of stored entries
InitMatricesWide(m, n) ==
    InitMatrices(m, n) \cup
    {A \in UNION {MatricesOfNnz(m, n, c) : c \in 0..(m * n)} :
        has_canonical_format_kern(A.indptr, A.indices)}

\* the index values of an axis of length bound
Natural(bound) == 0..(bound - 1)

\* those, the negative ones that count from the end, and the first invalid value
\* on either side
Signed(bound) == (-bound - 1)..bound

Batches(I, J, X) ==
    UNION { { [i |-> bi, j |-> bj, x |-> bx] :
                bi \in [1..c -> I], bj \in [1..c -> J], bx \in [1..c -> X] }
            : c \in 1..MaxBatch }

\* a sparse source in coordinate form: x.shape, x.row, x.col, x.data
Coo(sh, r, c, d) == [shape |-> sh, row |-> r, col |-> c, data |-> d]

NoSource == Coo(<<0, 0>>, <<>>, <<>>, <<>>)

NoCall == [op |-> "none", i |-> <<>>, j |-> <<>>, x |-> <<>>, err |-> NoError,
           warned |-> FALSE, pre |-> Mat(<<>>, <<>>, <<>>), mid |-> Mat(<<>>, <<>>, <<>>),
           ufunc |-> "none", nonzero |-> FALSE, sf |-> "Unknown", cf |-> "Unknown",
           row |-> <<>>, col |-> <<>>, src |-> NoSource]

Call(op, b, o) == [op |-> op, i |-> b.i, j |-> b.j, x |-> b.x, err |-> o.err,
                   warned |-> o.warned, pre |-> Self, mid |-> o.mid,
                   ufunc |-> "none", nonzero |-> FALSE, sf |-> sortedFlag, cf |-> canonFlag,
                   row |-> <<>>, col |-> <<>>, src |-> NoSource]

NoPend == Mat(<<>>, <<>>, <<>>)

(***************************************************************************)
(* Operations.  A call runs from pc = "idle" to pc = "done"; `last` then   *)
(* describes it until the caller goes on (Return).                         *)
(***************************************************************************)
NoFancy ==
    /\ idx = <<>>
    /\ col_counts = <<>>
    /\ col_order = <<>>
    /\ col_offset = <<>>
    /\ Bp = <<>>
    /\ Bj = <<>>
    /\ Bx = <<>>
    /\ row_ptr = <<>>
    /\ lane = <<>>
    /\ writes = <<>>
    /\ out_shape = <<0, 0>>
    /\ out = <<>>

\* the caller lets go of the arrays of the last indexing call
DropFancy ==
    /\ idx' = <<>>
    /\ col_counts' = <<>>
    /\ col_order' = <<>>
    /\ col_offset' = <<>>
    /\ Bp' = <<>>
    /\ Bj' = <<>>
    /\ Bx' = <<>>
    /\ row_ptr' = <<>>
    /\ lane' = <<>>
    /\ writes' = <<>>
    /\ out_shape' = <<0, 0>>
    /\ out' = <<>>

InitOver(S, m, n) ==
    /\ shape = <<m, n>>
    /\ NoFancy
    /\ \E A \in S :
          /\ indptr = A.indptr
          /\ indices = A.indices
          /\ data = A.data
    /\ sortedFlag = "Unknown"
    /\ canonFlag = "Unknown"
    /\ pc = "idle"
    /\ pend = NoPend
    /\ last = NoCall

Init == InitOver(InitMatrices(MaxDim, MaxDim), MaxDim, MaxDim)

SetManyOver(B) ==
    /\ pc = "idle"
    /\ \E b \in B :
          \E o \in set_many(Self, M, N, b.i, b.j, b.x) :
             /\ indptr' = o.mat.indptr
             /\ indices' = o.mat.indices
             /\ data' = o.mat.data
             /\ last' = Call("set", b, o)
    /\ pc' = "done"
    /\ UNCHANGED <<shape, sortedFlag, canonFlag, pend>>
    /\ UNCHANGED fvars

ZeroManyOver(B) ==
    /\ pc = "idle"
    /\ \E b \in B :
          \E o \in zero_many(Self, M, N, b.i, b.j) :
             /\ indptr' = o.mat.indptr
             /\ indices' = o.mat.indices
             /\ data' = o.mat.data
             /\ last' = Call("zero", b, o)
    /\ pc' = "done"
    /\ UNCHANGED <<shape, sortedFlag, canonFlag, pend>>
    /\ UNCHANGED fvars

SetMany == SetManyOver(Batches(Natural(M), Natural(N), XValues))

ZeroMany == ZeroManyOver(Batches(Natural(M), Natural(N), {0}))

SumDuplicates ==
    /\ pc = "idle"
    /\ LET o == sum_duplicates(Self, sortedFlag, canonFlag)
       IN /\ indptr' = o.mat.indptr
          /\ indices' = o.mat.indices
          /\ data' = o.mat.data
          /\ sortedFlag' = o.sortedFlag
          /\ canonFlag' = o.canonFlag
          /\ last' = [NoCall EXCEPT !.op = "sum_duplicates", !.pre = Self,
                                    !.sf = sortedFlag, !.cf = canonFlag]
    /\ pc' = "done"
    /\ UNCHANGED <<shape, pend>>
    /\ UNCHANGED fvars

Return ==
    /\ pc = "done"
    /\ pc' = "idle"
    /\ last' = NoCall
    /\ DropFancy
    /\ UNCHANGED mvars

Next == SetMany \/ ZeroMany \/ SumDuplicates \/ Return

\* any sequence of batch set, batch zero and sum_duplicates, indices 0 .. bound - 1
Spec == Init /\ [][Next]_vars

SetManySigned == SetManyOver(Batches(Signed(M), Signed(N), XValues))

ZeroManySigned == ZeroManyOver(Batches(Signed(M), Signed(N), {0}))

InitIdx == InitOver(InitMatricesWide(MaxDim, MaxDim), MaxDim, MaxDim)

NextIdx == SetManySigned \/ ZeroManySigned

\* one batch set or batch zero on any initial matrix, with negative and
\* out-of-range indices among the inputs
SpecIdx == InitIdx /\ [][NextIdx]_vars

(***************************************************************************)
(* The properties has_canonical_format and has_sorted_indices.  A read     *)
(* caches what it returns; the reads and writes leave the arrays alone.    *)
(***************************************************************************)
\* A.has_canonical_format
GetHasCanonicalFormat ==
    /\ pc = "idle"
    /\ canonFlag' = get_has_canonical_format(Self, sortedFlag, canonFlag)
    /\ UNCHANGED <<shape, indptr, indices, data, sortedFlag, pend, pc, last>>
    /\ UNCHANGED fvars

\* A.has_sorted_indices
GetSorted ==
    /\ pc = "idle"
    /\ sortedFlag' = get_sorted(Self, sortedFlag)
    /\ UNCHANGED <<shape, indptr, indices, data, canonFlag, pend, pc, last>>
    /\ UNCHANGED fvars

\* A.has_canonical_format = val
SetHasCanonicalFormat(val) ==
    /\ pc = "idle"
    /\ canonFlag' = FlagOf(val)
    /\ sortedFlag' = IF val THEN FlagOf(TRUE) ELSE sortedFlag
    /\ UNCHANGED <<shape, indptr, indices, data, pend, pc, last>>
    /\ UNCHANGED fvars

\* A.has_sorted_indices = val
SetSorted(val) ==
    /\ pc = "idle"
    /\ sortedFlag' = FlagOf(val)
    /\ UNCHANGED <<shape, indptr, indices, data, canonFlag, pend, pc, last>>
    /\ UNCHANGED fvars

FlagAccess ==
    \/ GetHasCanonicalFormat
    \/ GetSorted
    \/ \E val \in BOOLEAN : SetHasCanonicalFormat(val)
    \/ \E val \in BOOLEAN : SetSorted(val)

\* the flags do not depend on the values written: the batches set one value
FlagValues == {7}

SetManyFlags == SetManyOver(Batches(Natural(M), Natural(N), FlagValues))

NextFlags == SetManyFlags \/ ZeroMany \/ SumDuplicates \/ Return \/ FlagAccess

\* any sequence of flag reads, flag writes, batch set, batch zero and sum_duplicates
SpecFlags == Init /\ [][NextFlags]_vars

\* batch set, batch zero, sum_duplicates and reads of the two properties, the
\* caller writing no flag
NextReads == SetManyFlags \/ ZeroMany \/ SumDuplicates \/ Return \/ GetHasCanonicalFormat \/ GetSorted

SpecReads == Init /\ [][NextReads]_vars

(***************************************************************************)
(* Minor outer indexing: _minor_index_fancy and its three kernels.  The    *)
(* host code launches the kernels one after the other; inside fill_B the   *)
(* blocks (one per row) and the threads of a block run in any order.       *)
(***************************************************************************)
\* threads per block of the fill_B launch
threads == 32
\* longest index array
MaxIdx == 3
\* values stored by the matrices that are indexed
FancyValues == {5, 6}

IdxArrays(n) == UNION {[1..c -> 0..(n - 1)] : c \in 0..MaxIdx}

Fill(n, v) == [k \in 1..n |-> v]

\* bincount_idx_global: col_cnt[idx[k]] += 1 for every k
bincount(ix, n) == [c \in 1..n |-> Cardinality({k \in 1..Len(ix) : ix[k] = c - 1})]

\* row_kept_count: for every row the sum of col_cnt over its stored minor indices
row_kept_count(Ap, Aj, col_cnt) ==
    [r \in 1..(Len(Ap) - 1) |->
        SumSeq([k \in 1..(Ap[r + 1] - Ap[r]) |-> At(col_cnt, Aj[Ap[r] + k])])]

\* the row (block) that handles the entry stored at offset p
RowOfEntry(p) == CHOOSE r \in 0..(M - 1) : p \in RowRange(indptr, r)

seed_value_zero(row) == 0

\* the value thread 0 seeds the write cursor of a row with
seed_value(row) == At(Bp, row)

run_start_zero(col) == 0

\* fill_B: start, stop and length of the run of col in col_order
run_start(col) == IF col = 0 THEN 0 ELSE At(col_offset, col - 1)

run_stop(col) == At(col_offset, col)

run_cnt(col) == run_stop(col) - run_start(col)

\* the output slots the thread of entry p has reserved
Reserved(p) ==
    IF At(lane, p).st = "ready" THEN {}
    ELSE At(lane, p).my_out .. (At(lane, p).my_out + run_cnt(At(indices, p)) - 1)

FancyCall == [NoCall EXCEPT !.op = "minor_index_fancy", !.pre = Self]

FancyStart ==
    /\ pc = "idle"
    /\ \E ix \in IdxArrays(N) :
          /\ idx' = ix
          /\ out_shape' = <<M, Len(ix)>>
          /\ IF nnz(Self) = 0 \/ Len(ix) = 0
             THEN /\ Bp' = Fill(M + 1, 0)
                  /\ col_counts' = <<>>
                  /\ pc' = "done"
                  /\ last' = FancyCall
             ELSE /\ Bp' = <<0>> \o Fill(M, -1)
                  /\ col_counts' = Fill(N, 0)
                  /\ pc' = "bincount"
                  /\ last' = last
    /\ Bj' = <<>>
    /\ Bx' = <<>>
    /\ UNCHANGED <<col_order, col_offset, row_ptr, lane, writes, out>>
    /\ UNCHANGED mvars

Bincount ==
    /\ pc = "bincount"
    /\ col_counts' = bincount(idx, N)
    /\ pc' = "row_kept_count"
    /\ UNCHANGED <<idx, col_order, col_offset, Bp, Bj, Bx, row_ptr, lane, writes,
                   out_shape, out, last>>
    /\ UNCHANGED mvars

RowKeptCount ==
    /\ pc = "row_kept_count"
    /\ Bp' = <<0>> \o row_kept_count(indptr, indices, col_counts)
    /\ pc' = "offsets"
    /\ UNCHANGED <<idx, col_counts, col_order, col_offset, Bj, Bx, row_ptr, lane, writes,
                   out_shape, out, last>>
    /\ UNCHANGED mvars

\* col_order, col_offset, the prefix sum of Bp, and the allocation of Bj and Bx
ColOffsets ==
    /\ pc = "offsets"
    /\ col_order' = [k \in 1..Len(idx) |-> argsort(idx)[k] - 1]
    /\ col_offset' = cumsum(col_counts)
    /\ Bp' = <<0>> \o cumsum(Tail(Bp))
    /\ Bj' = Fill(Bp'[Len(Bp')], -1)
    /\ Bx' = Fill(Bp'[Len(Bp')], -1)
    /\ writes' = Fill(Bp'[Len(Bp')], 0)
    /\ row_ptr' = Fill(M, -1)
    /\ lane' = Fill(nnz(Self), [st |-> "ready", my_out |-> -1])
    /\ pc' = "fill_B"
    /\ UNCHANGED <<idx, col_counts, out_shape, out, last>>
    /\ UNCHANGED mvars

\* thread 0 of the block of `row`: row_ptr = Bp[row]
Seed(row) ==
    /\ pc = "fill_B"
    /\ At(row_ptr, row) = -1
    /\ row_ptr' = [row_ptr EXCEPT ![row + 1] = seed_value(row)]
    /\ UNCHANGED <<idx, col_counts, col_order, col_offset, Bp, Bj, Bx, lane, writes,
                   out_shape, out, pc, last>>
    /\ UNCHANGED mvars

syncthreads_open(row) == TRUE

\* __syncthreads after the seeding: the block goes on once thread 0 has written row_ptr
syncthreads(row) == At(row_ptr, row) # -1

\* the thread of entry p, past __syncthreads: cnt == 0 ? continue : atomicAdd
LaneReserve(p) ==
    /\ pc = "fill_B"
    /\ At(lane, p).st = "ready"
    /\ syncthreads(RowOfEntry(p))
    /\ (p - threads) \in RowRange(indptr, RowOfEntry(p)) => At(lane, p - threads).st = "done"
    /\ LET row == RowOfEntry(p)
           cnt == run_cnt(At(indices, p))
       IN IF cnt = 0
          THEN /\ lane' = [lane EXCEPT ![p + 1].st = "done"]
               /\ row_ptr' = row_ptr
          ELSE /\ lane' = [lane EXCEPT ![p + 1] = [st |-> "reserved",
                                                  my_out |-> At(row_ptr, row)]]
               /\ row_ptr' = [row_ptr EXCEPT ![row + 1] = @ + cnt]
    /\ UNCHANGED <<idx, col_counts, col_order, col_offset, Bp, Bj, Bx, writes,
                   out_shape, out, pc, last>>
    /\ UNCHANGED mvars

\* the thread of entry p writes its cnt slots
LaneWrite(p) ==
    /\ pc = "fill_B"
    /\ At(lane, p).st = "reserved"
    /\ LET start == run_start(At(indices, p))
           my_out == At(lane, p).my_out
       IN /\ Bj' = [q \in 1..Len(Bj) |->
                       IF (q - 1) \in Reserved(p)
                       THEN At(col_order, start + (q - 1 - my_out)) ELSE Bj[q]]
          /\ Bx' = [q \in 1..Len(Bx) |->
                       IF (q - 1) \in Reserved(p) THEN At(data, p) ELSE Bx[q]]
          /\ writes' = [q \in 1..Len(writes) |->
                       IF (q - 1) \in Reserved(p) THEN writes[q] + 1 ELSE writes[q]]
    /\ lane' = [lane EXCEPT ![p + 1].st = "done"]
    /\ UNCHANGED <<idx, col_counts, col_order, col_offset, Bp, row_ptr, out_shape, out,
                   pc, last>>
    /\ UNCHANGED mvars

\* every block has finished: the result is the matrix (Bx, Bj, Bp)
FancyFinish ==
    /\ pc = "fill_B"
    /\ \A r \in 0..(M - 1) : At(row_ptr, r) # -1
    /\ \A p \in 0..(nnz(Self) - 1) : At(lane, p).st = "done"
    /\ pc' = "done"
    /\ last' = FancyCall
    /\ UNCHANGED fvars
    /\ UNCHANGED mvars

FillB ==
    \/ \E row \in 0..(M - 1) : Seed(row)
    \/ \E p \in 0..(nnz(Self) - 1) : LaneReserve(p)
    \/ \E p \in 0..(nnz(Self) - 1) : LaneWrite(p)

MinorIndexFancy == FancyStart \/ Bincount \/ RowKeptCount \/ ColOffsets \/ FillB \/ FancyFinish

InitFancy ==
    InitOver(UNION {MatricesOver(MaxDim, MaxDim + 1, c, FancyValues) : c \in 0..MaxInitNnz},
             MaxDim, MaxDim + 1)

\* one minor outer indexing of any initial matrix, thread by thread
SpecFancy == InitFancy /\ [][MinorIndexFancy]_vars

(***************************************************************************)
(* _minor_index_fancy as one call.  The result depends on the schedule of  *)
(* fill_B only through the order in which the threads of a row reach the   *)
(* atomicAdd, so the call yields one matrix per choice of these orders.    *)
(***************************************************************************)
RECURSIVE Orders(_)
Orders(S) ==
    IF S = {} THEN {<<>>}
    ELSE UNION {{<<p>> \o o : o \in Orders(S \ {p})} : p \in S}

\* a thread handles its entries p, p + blockDim.x, ... in this order
ThreadOrder(o) ==
    \A a, b \in 1..Len(o) : (a < b /\ (o[a] - o[b]) % threads = 0) => o[a] < o[b]

\* what the threads of a row write when they reach the atomicAdd in order o
RowFill(A, o, c_order, c_offset) ==
    Concat([k \in 1..Len(o) |->
        LET col == At(A.indices, o[k])
            stop == At(c_offset, col)
            start == IF col = 0 THEN 0 ELSE At(c_offset, col - 1)
        IN [q \in 1..(stop - start) |-> <<At(c_order, start + q - 1), At(A.data, o[k])>>]])

\* the contents <<Bj[q], Bx[q]>> of the rows below n_row, for every schedule
RECURSIVE FillRows(_, _, _, _)
FillRows(A, n_row, c_order, c_offset) ==
    IF n_row = 0 THEN {<<>>}
    ELSE {lower \o RowFill(A, o, c_order, c_offset) :
             lower \in FillRows(A, n_row - 1, c_order, c_offset),
             o \in {oo \in Orders(RowRange(A.indptr, n_row - 1)) : ThreadOrder(oo)}}

minor_index_fancy(A, n_row, n_col, ix) ==
    IF nnz(A) = 0 \/ Len(ix) = 0
    THEN {Mat(Fill(n_row + 1, 0), <<>>, <<>>)}
    ELSE LET c_counts == bincount(ix, n_col)
             c_order == [k \in 1..Len(ix) |-> argsort(ix)[k] - 1]
             c_offset == cumsum(c_counts)
             new_indptr == <<0>> \o cumsum(row_kept_count(A.indptr, A.indices, c_counts))
         IN {Mat(new_indptr, [q \in 1..Len(f) |-> f[q][1]], [q \in 1..Len(f) |-> f[q][2]]) :
                f \in FillRows(A, n_row, c_order, c_offset)}

\* A[:, ix] on the current matrix
GetMinorFancy ==
    /\ pc = "idle"
    /\ \E ix \in IdxArrays(N) : \E B \in minor_index_fancy(Self, M, N, ix) :
          /\ idx' = ix
          /\ Bp' = B.indptr
          /\ Bj' = B.indices
          /\ Bx' = B.data
          /\ out_shape' = <<M, Len(ix)>>
    /\ pc' = "done"
    /\ last' = FancyCall
    /\ UNCHANGED <<col_counts, col_order, col_offset, row_ptr, lane, writes, out>>
    /\ UNCHANGED mvars

NextAll == Next \/ GetMinorFancy

\* any sequence of batch set, batch zero, sum_duplicates and minor outer indexing
SpecAll == Init /\ [][NextAll]_vars

(***************************************************************************)
(* Batch set statement by statement: _perform_insert builds the three new  *)
(* arrays and then assigns them to the matrix in three statements.  (The   *)
(* astype assignments of _insert_many rebind the arrays to equal copies.)  *)
(***************************************************************************)
InsertSteps == {"assign_indptr", "assign_indices", "assign_data"}

\* _set_many up to the end of the array building of _perform_insert
SetManyBegin ==
    /\ pc = "idle"
    /\ \E b \in Batches(Natural(M), Natural(N), XValues) :
          \E o \in set_many(Self, M, N, b.i, b.j, b.x) :
             /\ data' = o.mid.data
             /\ last' = Call("set", b, o)
             /\ IF o.warned
                THEN pend' = o.mat /\ pc' = "assign_indptr"
                ELSE pend' = pend /\ pc' = "done"
    /\ UNCHANGED <<shape, indptr, indices, sortedFlag, canonFlag>>
    /\ UNCHANGED fvars

\* self.indptr = new_indptr
AssignIndptr ==
    /\ pc = "assign_indptr"
    /\ indptr' = pend.indptr
    /\ pc' = "assign_indices"
    /\ UNCHANGED <<shape, indices, data, sortedFlag, canonFlag, pend, last>>
    /\ UNCHANGED fvars

\* self.indices = new_indices
AssignIndices ==
    /\ pc = "assign_indices"
    /\ indices' = pend.indices
    /\ pc' = "assign_data"
    /\ UNCHANGED <<shape, indptr, data, sortedFlag, canonFlag, pend, last>>
    /\ UNCHANGED fvars

\* self.data = new_data
AssignData ==
    /\ pc = "assign_data"
    /\ data' = pend.data
    /\ pend' = NoPend
    /\ pc' = "done"
    /\ UNCHANGED <<shape, indptr, indices, sortedFlag, canonFlag, last>>
    /\ UNCHANGED fvars

NextInsert == SetManyBegin \/ AssignIndptr \/ AssignIndices \/ AssignData \/ Return

\* any sequence of batch sets, one statement of the replacement at a time
SpecInsert == Init /\ [][NextInsert]_vars

(***************************************************************************)
(* Assignment of a sparse source to a region: _set_arrayXarray_sparse.     *)
(* row and col are the (M, N)-shaped index arrays of the region, x the     *)
(* source in coordinate form.                                              *)
(***************************************************************************)
\* cupy.arange, cupy.repeat, cupy.tile and ndarray.ravel
arange(n) == [k \in 1..n |-> k - 1]

repeat(s, n) == [k \in 1..(Len(s) * n) |-> s[((k - 1) \div n) + 1]]

tile(s, n) == [k \in 1..(Len(s) * n) |-> s[((k - 1) % Len(s)) + 1]]

ravel(a) == Concat(a)

\* the batch handed to _set_many: the source triples, expanded, in target coordinates
expand_source(row, col, x) ==
    LET Mr == Len(row)
        Nr == Len(row[1])
        broadcast_row == Mr # 1 /\ x.shape[1] = 1
        broadcast_col == Nr # 1 /\ x.shape[2] = 1
        r1 == IF broadcast_row THEN repeat(arange(Mr), Len(x.row)) ELSE x.row
        c1 == IF broadcast_row THEN tile(x.col, Mr) ELSE x.col
        x1 == IF broadcast_row THEN tile(x.data, Mr) ELSE x.data
        r2 == IF broadcast_col THEN repeat(r1, Nr) ELSE r1
        c2 == IF broadcast_col THEN tile(arange(Nr), Len(c1)) ELSE c1
        x2 == IF broadcast_col THEN repeat(x1, Nr) ELSE x1
    IN [i |-> [k \in 1..Len(r2) |-> row[r2[k] + 1][c2[k] + 1]],
        j |-> [k \in 1..Len(r2) |-> col[r2[k] + 1][c2[k] + 1]],
        x |-> x2]

\* _set_arrayXarray_sparse: the possible outcomes; an error of the batch set
\* leaves the matrix as the batch zero made it
set_arrayXarray_sparse(A, n_row, n_col, row, col, x) ==
    UNION { IF z.err # NoError THEN {z}
            ELSE LET b == expand_source(row, col, x)
                 IN set_many(z.mat, n_row, n_col, b.i, b.j, b.x)
            : z \in zero_many(A, n_row, n_col, ravel(row), ravel(col)) }

\* the sequences without repetition over the non-empty subsets of S
DistinctSeqs(S) == UNION {Orders(T) : T \in (SUBSET S) \ {{}}}

\* the index arrays of the regions R x C: row[a][b] = R[a], col[a][b] = C[b]
Regions(m, n) ==
    {[row |-> [a \in 1..Len(R) |-> [b \in 1..Len(C) |-> R[a]]],
      col |-> [a \in 1..Len(R) |-> [b \in 1..Len(C) |-> C[b]]]] :
        R \in DistinctSeqs(0..(m - 1)), C \in DistinctSeqs(0..(n - 1))}

\* the sources that fit a region of Mr x Nr positions, as they are or broadcast:
\* any set of stored positions, in row-major order, with values in V
Sources(Mr, Nr, V) ==
    UNION { UNION { { Coo(sh,
                          [k \in 1..Len(kept) |-> (kept[k] \div sh[2])],
                          [k \in 1..Len(kept) |-> (kept[k] % sh[2])],
                          d) : d \in [1..Len(kept) -> V] }
                    : kept \in {SortedSeqOf(K) : K \in SUBSET (0..(sh[1] * sh[2] - 1))} }
            : sh \in {1, Mr} \X {1, Nr} }

\* the stored values of the sources
AssignValues == {7}

SetArrayXArraySparse ==
    /\ pc = "idle"
    /\ \E g \in Regions(M, N) :
          \E x \in Sources(Len(g.row), Len(g.row[1]), AssignValues) :
             \E o \in set_arrayXarray_sparse(Self, M, N, g.row, g.col, x) :
                /\ indptr' = o.mat.indptr
                /\ indices' = o.mat.indices
                /\ data' = o.mat.data
                /\ last' = [Call("assign", expand_source(g.row, g.col, x), o)
                               EXCEPT !.row = g.row, !.col = g.col, !.src = x]
    /\ pc' = "done"
    /\ UNCHANGED <<shape, sortedFlag, canonFlag, pend>>
    /\ UNCHANGED fvars

NextAssign == SetArrayXArraySparse \/ Return

\* one sparse assignment to a region of any initial matrix
SpecAssign == Init /\ [][NextAssign]_vars

(***************************************************************************)
(* Reductions over the minor axis: _minor_reduce and the kernels built     *)
(* from _max_min_reduction_code.  Values are float64; NaN is the one value *)
(* that differs from itself.                                               *)
(***************************************************************************)
\* nan("")
NaN == 999

IsNaN(v) == v = NaN

\* data.astype(cupy.float64): every value of the model is a small integer, which
\* float64 represents exactly, and NaN stays NaN
AsFloat64(v) == v

\* the comparison ${op} of two doubles: false when either side is NaN
Compare(op, a, b) ==
    /\ ~IsNaN(a)
    /\ ~IsNaN(b)
    /\ IF op = ">" THEN a > b ELSE a < b

cond_nonzero(cond, block_length, length) == block_length > 0

\* the condition ${cond} on the block density
cond_holds(cond, block_length, length) ==
    IF cond = "block_length == length" THEN block_length = length ELSE block_length > 0

max_reduction_kern == [op |-> ">", cond |-> "block_length == length"]
max_nonzero_reduction_kern == [op |-> ">", cond |-> "block_length > 0"]
min_reduction_kern == [op |-> "<", cond |-> "block_length == length"]
min_nonzero_reduction_kern == [op |-> "<", cond |-> "block_length > 0"]

RECURSIVE ScanBlockNoNaN(_, _, _, _, _)
ScanBlockNoNaN(d, entry, stop, op, running_value) ==
    IF entry >= stop THEN running_value
    ELSE ScanBlockNoNaN(d, entry + 1, stop, op,
                        IF Compare(op, At(d, entry), running_value)
                        THEN At(d, entry) ELSE running_value)

\* the loop of the kernel from `entry` on
RECURSIVE ScanBlock(_, _, _, _, _)
ScanBlock(d, entry, stop, op, running_value) ==
    IF entry >= stop THEN running_value
    ELSE IF IsNaN(At(d, entry)) THEN NaN
    ELSE ScanBlock(d, entry + 1, stop, op,
                   IF Compare(op, At(d, entry), running_value)
                   THEN At(d, entry) ELSE running_value)

\* one thread of the kernel: z[tid]
max_min_reduction(kern, d, x, y, length, tid) ==
    LET block_length == At(y, tid) - At(x, tid)
        running_value == IF cond_holds(kern.cond, block_length, length)
                         THEN At(d, At(x, tid)) ELSE 0
    IN ScanBlock(d, At(x, tid), At(y, tid), kern.op, running_value)

\* _minor_reduce
minor_reduce(A, n_row, n_col, ufunc, nonzero) ==
    LET kern == IF nonzero
                THEN (IF ufunc = "amax" THEN max_nonzero_reduction_kern
                                        ELSE min_nonzero_reduction_kern)
                ELSE (IF ufunc = "amax" THEN max_reduction_kern ELSE min_reduction_kern)
        d == [k \in 1..Len(A.data) |-> AsFloat64(A.data[k])]
    IN [r \in 1..n_row |->
           max_min_reduction(kern, d, SubSeq(A.indptr, 1, Len(A.indptr) - 1),
                             Tail(A.indptr), n_col, r - 1)]

\* rows, row length, stored entries and stored values of the reduced matrices
ReduceRows == 2
ReduceLength == 5
ReduceNnz == 3
ReduceValues == {-3, -1, 2, NaN}

\* the matrices in canonical format of dimensions m x n with at most c stored
\* entries and values in V
CanonicalMatrices(m, n, c, V) ==
    UNION { { Mat(<<0>> \o cumsum([r \in 1..m |-> Cardinality(rs[r])]),
                  Concat([r \in 1..m |-> SortedSeqOf(rs[r])]),
                  d) :
                d \in [1..SumSeq([r \in 1..m |-> Cardinality(rs[r])]) -> V] }
            : rs \in {f \in [1..m -> SUBSET (0..(n - 1))] :
                         SumSeq([r \in 1..m |-> Cardinality(f[r])]) <= c} }

MinorReduce ==
    /\ pc = "idle"
    /\ \E ufunc \in {"amax", "amin"} : \E nonzero \in BOOLEAN :
          /\ out' = minor_reduce(Self, M, N, ufunc, nonzero)
          /\ last' = [NoCall EXCEPT !.op = "minor_reduce", !.ufunc = ufunc,
                                    !.nonzero = nonzero, !.pre = Self]
    /\ pc' = "done"
    /\ UNCHANGED <<idx, col_counts, col_order, col_offset, Bp, Bj, Bx, row_ptr, lane, writes,
                   out_shape>>
    /\ UNCHANGED mvars

\* wide matrices with few stored entries, and small ones up to fully dense
InitReduce ==
    \/ InitOver(CanonicalMatrices(ReduceRows, ReduceLength, ReduceNnz, ReduceValues),
                ReduceRows, ReduceLength)
    \/ InitOver(CanonicalMatrices(MaxDim, MaxDim, MaxDim * MaxDim, ReduceValues),
                MaxDim, MaxDim)

NextReduce == MinorReduce \/ Return

\* min and max over the minor axis of any canonical matrix, then back to the caller
SpecReduce == InitReduce /\ [][NextReduce]_vars

\* the matrix _minor_index_fancy returns
(***************************************************************************)
(* Index of the extreme over the minor axis: _arg_minor_reduce and the     *)
(* kernels of _argmax_argmin_code.                                         *)
(***************************************************************************)
\* the first data_index the search for a position without stored entry stops at
RECURSIVE FirstGap(_, _, _, _, _)
FirstGap(Aj, x, y, length, data_index) ==
    IF data_index >= length THEN data_index
    ELSE IF x + data_index >= y \/ data_index # At(Aj, x + data_index) THEN data_index
    ELSE FirstGap(Aj, x, y, length, data_index + 1)

\* the loop with the index of the NaN kept
RECURSIVE ArgScanBlockKeep(_, _, _, _, _, _)
ArgScanBlockKeep(d, Aj, entry, stop, op, cur) ==
    IF entry >= stop THEN cur
    ELSE IF IsNaN(At(d, entry)) THEN [data_value |-> NaN, data_index |-> At(Aj, entry)]
    ELSE ArgScanBlockKeep(d, Aj, entry + 1, stop, op,
                          IF Compare(op, At(d, entry), cur.data_value)
                          THEN [data_value |-> At(d, entry), data_index |-> At(Aj, entry)]
                          ELSE cur)

\* the loop of the kernel from `entry` on
RECURSIVE ArgScanBlock(_, _, _, _, _, _)
ArgScanBlock(d, Aj, entry, stop, op, cur) ==
    IF entry >= stop THEN cur
    ELSE IF IsNaN(At(d, entry)) THEN [data_value |-> NaN, data_index |-> 0]
    ELSE ArgScanBlock(d, Aj, entry + 1, stop, op,
                      IF Compare(op, At(d, entry), cur.data_value)
                      THEN [data_value |-> At(d, entry), data_index |-> At(Aj, entry)]
                      ELSE cur)

\* one thread of the kernel: z[tid]
arg_reduction(op, d, Aj, x, y, length, tid) ==
    LET block_length == At(y, tid) - At(x, tid)
        first == IF block_length = length
                 THEN [data_value |-> At(d, At(x, tid)), data_index |-> At(Aj, At(x, tid))]
                 ELSE IF block_length > 0
                 THEN [data_value |-> 0,
                       data_index |-> FirstGap(Aj, At(x, tid), At(y, tid), length, 0)]
                 ELSE [data_value |-> 0, data_index |-> 0]
    IN ArgScanBlock(d, Aj, At(x, tid), At(y, tid), op, first).data_index

\* _arg_minor_reduce
arg_minor_reduce(A, n_row, n_col, ufunc) ==
    [r \in 1..n_row |->
        arg_reduction(IF ufunc = "argmax" THEN ">" ELSE "<", A.data, A.indices,
                      SubSeq(A.indptr, 1, Len(A.indptr) - 1), Tail(A.indptr), n_col, r - 1)]

ArgMinorReduce ==
    /\ pc = "idle"
    /\ \E ufunc \in {"argmax", "argmin"} :
          /\ out' = arg_minor_reduce(Self, M, N, ufunc)
          /\ last' = [NoCall EXCEPT !.op = "arg_minor_reduce", !.ufunc = ufunc, !.pre = Self]
    /\ pc' = "done"
    /\ UNCHANGED <<idx, col_counts, col_order, col_offset, Bp, Bj, Bx, row_ptr, lane, writes,
                   out_shape>>
    /\ UNCHANGED mvars

NextArgReduce == ArgMinorReduce \/ Return

SpecArgReduce == InitReduce /\ [][NextArgReduce]_vars

(***************************************************************************)
(* The reduction kernels with the elements they read.  A read outside the  *)
(* array returns whatever the memory holds: any value of Garbage.          *)
(***************************************************************************)
Garbage == {0, 3}

\* a[k] as the kernel reads it
Load(a, k) == IF 0 <= k /\ k < Len(a) THEN {At(a, k)} ELSE Garbage

\* the entries the loop over the block reads: up to the first NaN, or all
LoopReads(d, lo, hi) == {e \in lo..(hi - 1) : \A e2 \in lo..(e - 1) : ~IsNaN(At(d, e2))}

\* one thread of _max_min_reduction_code: z[tid] and the offsets read from data
max_min_reduction_reads(kern, d, x, y, length, tid) ==
    LET lo == At(x, tid)
        hi == At(y, tid)
        seeded == cond_holds(kern.cond, hi - lo, length)
    IN {[z |-> ScanBlock(d, lo, hi, kern.op, running_value),
         data_reads |-> (IF seeded THEN {lo} ELSE {}) \cup LoopReads(d, lo, hi),
         seed_reads |-> {},
         gap_reads |-> {}] : running_value \in IF seeded THEN Load(d, lo) ELSE {0}}

\* one thread of _argmax_argmin_code: z[tid], the offsets read from data, the
\* offsets read from indices for the first value and by the search for the first
\* position without entry; the loop reads indices[entry] inside the block only
arg_reduction_reads(op, d, Aj, x, y, length, tid) ==
    LET lo == At(x, tid)
        hi == At(y, tid)
        block_length == hi - lo
        dense == block_length = length
        gap == FirstGap(Aj, lo, hi, length, 0)
        searched == ~dense /\ block_length > 0
        first == IF dense
                 THEN {[data_value |-> v, data_index |-> c] :
                          v \in Load(d, lo), c \in Load(Aj, lo)}
                 ELSE {[data_value |-> 0, data_index |-> IF searched THEN gap ELSE 0]}
    IN {[z |-> ArgScanBlock(d, Aj, lo, hi, op, f).data_index,
         data_reads |-> (IF dense THEN {lo} ELSE {}) \cup LoopReads(d, lo, hi),
         seed_reads |-> IF dense THEN {lo} ELSE {},
         gap_reads |-> IF searched
                       THEN {lo + k : k \in 0..(IF gap < length THEN gap ELSE length - 1)}
                       ELSE {}] : f \in first}

\* the kernel a reduction launches, one thread per row
kernel_reads(A, n_col, ufunc, nonzero, r) ==
    LET x == SubSeq(A.indptr, 1, Len(A.indptr) - 1)
        y == Tail(A.indptr)
    IN IF ufunc \in {"argmax", "argmin"}
       THEN arg_reduction_reads(IF ufunc = "argmax" THEN ">" ELSE "<",
                                A.data, A.indices, x, y, n_col, r)
       ELSE max_min_reduction_reads(
                IF nonzero
                THEN (IF ufunc = "amax" THEN max_nonzero_reduction_kern
                                        ELSE min_nonzero_reduction_kern)
                ELSE (IF ufunc = "amax" THEN max_reduction_kern ELSE min_reduction_kern),
                [k \in 1..Len(A.data) |-> AsFloat64(A.data[k])], x, y, n_col, r)

KernelValues == {-1, 0, 2, NaN}

Reductions ==
    ({"amax", "amin"} \X BOOLEAN) \cup ({"argmax", "argmin"} \X {FALSE})

KernelRun ==
    /\ pc = "idle"
    /\ \E f \in Reductions :
          /\ \E z \in [1..M -> UNION {kernel_reads(Self, N, f[1], f[2], r - 1) : r \in 1..M}] :
                /\ \A r \in 1..M : z[r] \in kernel_reads(Self, N, f[1], f[2], r - 1)
                /\ out' = z
          /\ last' = [NoCall EXCEPT !.op = "kernel", !.ufunc = f[1], !.nonzero = f[2],
                                    !.pre = Self]
    /\ pc' = "done"
    /\ UNCHANGED <<idx, col_counts, col_order, col_offset, Bp, Bj, Bx, row_ptr, lane, writes,
                   out_shape>>
    /\ UNCHANGED mvars

\* wide matrices with few entries, small ones up to fully dense, and one whose
\* minor dimension is zero
InitKernel ==
    \/ InitOver(CanonicalMatrices(ReduceRows, ReduceLength, ReduceNnz, KernelValues),
                ReduceRows, ReduceLength)
    \/ InitOver(CanonicalMatrices(MaxDim, MaxDim, MaxDim * MaxDim, KernelValues),
                MaxDim, MaxDim)
    \/ InitOver(CanonicalMatrices(ReduceRows, 0, 0, KernelValues), ReduceRows, 0)

NextKernel == KernelRun \/ Return

SpecKernel == InitKernel /\ [][NextKernel]_vars

(***************************************************************************)
(* Addition and subtraction of a scalar: _add and the four operators.      *)
(* A returned matrix is a record of its arrays and of whether it is the    *)
(* object self.                                                            *)
(***************************************************************************)
NotSupported == [kind |-> "NotImplementedError", idx |-> 0, bound |-> 0]

\* _with_data: a new matrix over the given data and copies of indices and indptr
with_data(A, d) == [mat |-> Mat(A.indptr, A.indices, d), is_self |-> FALSE, err |-> NoError]

\* self.copy() and -self, both built by _with_data
copy(A) == with_data(A, A.data)

neg(A) == with_data(A, [k \in 1..Len(A.data) |-> IF IsNaN(A.data[k]) THEN NaN ELSE -A.data[k]])

\* _add with both signs dropped
add_unsigned(A, other, lhs_negative, rhs_negative) ==
    IF other = 0 THEN copy(A)
    ELSE [mat |-> Mat(<<>>, <<>>, <<>>), is_self |-> FALSE, err |-> NotSupported]

\* _add with a scalar operand
add(A, other, lhs_negative, rhs_negative) ==
    IF other = 0
    THEN IF lhs_negative THEN neg(A) ELSE copy(A)
    ELSE [mat |-> Mat(<<>>, <<>>, <<>>), is_self |-> FALSE, err |-> NotSupported]

\* __add__, __radd__, __sub__, __rsub__: the signs each passes to _add
ScalarOps ==
    { [name |-> "__add__", lhs_negative |-> FALSE, rhs_negative |-> FALSE],
      [name |-> "__radd__", lhs_negative |-> FALSE, rhs_negative |-> FALSE],
      [name |-> "__sub__", lhs_negative |-> FALSE, rhs_negative |-> TRUE],
      [name |-> "__rsub__", lhs_negative |-> TRUE, rhs_negative |-> FALSE] }

\* the scalar operands: zero, nonzero numbers and NaN
Scalars == {-1, 0, 2, NaN}

ScalarAdd ==
    /\ pc = "idle"
    /\ \E f \in ScalarOps : \E other \in Scalars :
          /\ out' = add(Self, other, f.lhs_negative, f.rhs_negative)
          /\ last' = [NoCall EXCEPT !.op = f.name, !.x = <<other>>, !.pre = Self]
    /\ pc' = "done"
    /\ UNCHANGED <<idx, col_counts, col_order, col_offset, Bp, Bj, Bx, row_ptr, lane, writes,
                   out_shape>>
    /\ UNCHANGED mvars

NextScalar == ScalarAdd \/ SetManyFlags \/ Return

\* scalar addition and subtraction on the matrices batch sets build
SpecScalar == Init /\ [][NextScalar]_vars

Out == Mat(Bp, Bj, Bx)

InitEmpty == InitOver(MatricesOfNnz(MaxDim, MaxDim, 0), MaxDim, MaxDim)

\* any sequence of calls on a matrix constructed from its shape alone: every
\* stored entry has been put there by a batch insertion
SpecEmpty == InitEmpty /\ [][Next]_vars

(***************************************************************************)
(* Construction: __init__ from a shape alone or from a (data, indices,     *)
(* indptr) triple, for the two formats.  A scalar type is its dtype.char.  *)
(***************************************************************************)
None == "None"

\* shape=None
NoShape == <<>>

\* a check that lets every scalar type through
SupportedCharsAll == {"?", "f", "d", "F", "D", "e", "l", "i"}

\* dtype.char in '?fdFD'
SupportedChars == {"?", "f", "d", "F", "D"}

\* the format's _swap: csr has the rows as its major axis, csc the columns
swap(format, a, b) == IF format = "csr" THEN <<a, b>> ELSE <<b, a>>

ValueError(a, b) == [kind |-> "ValueError", idx |-> a, bound |-> b]

\* data.astype(dtype): bool keeps whether the value is nonzero
astype(d, char) == [k \in 1..Len(d) |-> IF char = "?" THEN (IF d[k] # 0 THEN 1 ELSE 0) ELSE d[k]]

\* the object __init__ leaves, or the error it raises and no object
NotMade(e) == [made |-> FALSE, err |-> e, mat |-> Mat(<<>>, <<>>, <<>>), shape |-> <<0, 0>>,
               dtype |-> None]

construct(a) ==
    LET shape_only == a.kind = "shape"
        d0 == IF shape_only THEN <<>> ELSE a.data
        Aj == IF shape_only THEN <<>> ELSE a.indices
        Ap == IF shape_only THEN Fill(swap(a.format, a.arg1[1], a.arg1[2])[1] + 1, 0)
              ELSE a.indptr
        shape0 == IF shape_only THEN a.arg1 ELSE a.shape
        data_dtype == IF shape_only THEN (IF a.dtype # None THEN a.dtype ELSE "d")
                      ELSE a.data_dtype
        dtype == IF a.dtype = None THEN data_dtype ELSE a.dtype
    IN IF ~shape_only /\ Len(d0) # Len(Aj) THEN NotMade(ValueError(0, 0))
       ELSE IF dtype \notin SupportedChars THEN NotMade(ValueError(0, 0))
       ELSE IF shape0 = NoShape /\ Len(Aj) = 0 THEN NotMade(ValueError(0, 0))
       ELSE LET sh == IF shape0 = NoShape
                      THEN swap(a.format, Len(Ap) - 1, SeqMax(Aj) + 1)
                      ELSE shape0
                major == swap(a.format, sh[1], sh[2])[1]
            IN IF Len(Ap) # major + 1 THEN NotMade(ValueError(Len(Ap), major + 1))
               ELSE [made |-> TRUE, err |-> NoError, mat |-> Mat(Ap, Aj, astype(d0, dtype)),
                     shape |-> sh, dtype |-> dtype]

\* bounds of the constructor's arguments
MaxArg == 2
MaxArgPtr == 4

Formats == {"csr", "csc"}

DataChars == {"d", "i"}

DtypeArgs == {None, "?", "f", "d", "F", "D", "e", "l"}

ShapeArgs == (1..MaxArg) \X (1..MaxArg)

SeqsUpTo(S, n) == UNION {[1..k -> S] : k \in 0..n}

ConstructorArgs ==
    { [kind |-> "shape", arg1 |-> sh, dtype |-> t, format |-> f] :
          sh \in ShapeArgs, t \in DtypeArgs, f \in Formats }
    \cup
    { [kind |-> "triple", data |-> t[1], indices |-> t[2], indptr |-> t[3],
       shape |-> q[1], data_dtype |-> q[2], dtype |-> q[3], format |-> q[4]] :
          t \in SeqsUpTo({0, 5}, MaxArg) \X SeqsUpTo(0..(MaxArg - 1), MaxArg)
                  \X {Fill(k, 0) : k \in 1..MaxArgPtr},
          q \in (ShapeArgs \cup {NoShape}) \X DataChars \X DtypeArgs \X Formats }

Construct ==
    /\ pc = "idle"
    /\ \E a \in ConstructorArgs :
          /\ out' = construct(a)
          /\ last' = [NoCall EXCEPT !.op = "__init__", !.src = a]
    /\ pc' = "done"
    /\ UNCHANGED <<idx, col_counts, col_order, col_offset, Bp, Bj, Bx, row_ptr, lane, writes,
                   out_shape>>
    /\ UNCHANGED mvars

NextConstruct == Construct \/ Return

\* one construction at a time, next to an existing matrix
SpecConstruct == InitEmpty /\ [][NextConstruct]_vars

(***************************************************************************)
(* Binary morphology on one-dimensional images: binary_erosion,            *)
(* binary_dilation and the iteration of _binary_erosion.  An image is a    *)
(* sequence of numbers, a structure a sequence of booleans as 0 and 1.     *)
(***************************************************************************)
AsBool(v) == IF v # 0 THEN 1 ELSE 0

\* generate_binary_structure(1, 1)
generate_binary_structure == <<1, 1, 1>>

\* structure=None
NoStructure == [given |-> FALSE, w |-> <<>>]

Reverse(w) == [k \in 1..Len(w) |-> w[Len(w) + 1 - k]]

\* the kernel of _get_binary_erosion_kernel at every pixel: the structure's
\* true elements are visited at i + s - offset, outside the image the border counts
erode_kernel(x, w, offset, center_is_true, border_value, invert) ==
    LET border == IF invert THEN 1 - AsBool(border_value) ELSE AsBool(border_value)
        true_val == IF invert THEN 0 ELSE 1
        false_val == 1 - true_val
        found(i, k) ==
            LET n == i + (k - 1) - offset
            IN IF n < 0 \/ n >= Len(x) THEN border = 0
               ELSE (IF AsBool(At(x, n)) = 1 THEN true_val ELSE false_val) = 0
    IN [p \in 1..Len(x) |->
           IF center_is_true /\ AsBool(x[p]) = false_val THEN AsBool(x[p])
           ELSE IF \E k \in 1..Len(w) : w[k] # 0 /\ found(p - 1, k) THEN false_val
           ELSE true_val]

Result(v) == [err |-> NoError, val |-> v]

\* the while loop of _binary_erosion: tmp_out holds the last step, ii counts them
RECURSIVE IterateSteps(_, _, _, _, _, _, _, _, _)
IterateSteps(tmp_out, ii, changed, iterations, w, offset, center_is_true, border_value, invert) ==
    IF ii < iterations \/ (iterations < 1 /\ changed)
    THEN LET stepped == erode_kernel(tmp_out, w, offset, center_is_true, border_value, invert)
         IN IF stepped = tmp_out /\ (ii + 1) % 2 = 0 THEN stepped
            ELSE IterateSteps(stepped, ii + 1, stepped # tmp_out, iterations, w, offset,
                              center_is_true, border_value, invert)
    ELSE tmp_out

\* _binary_erosion, mask=None, output=None
binary_erosion_impl(input, structure, iterations, border_value, origin, invert, brute_force) ==
    LET w == IF structure.given THEN structure.w ELSE generate_binary_structure
        offset == (Len(w) \div 2) + origin
        center_is_true == (\A k \in 1..Len(w) : w[k] # 0) \/ w[origin + (Len(w) \div 2) + 1] # 0
        first == erode_kernel(input, w, offset, center_is_true, border_value, invert)
    IN IF iterations = 1 THEN Result(first)
       ELSE IF center_is_true /\ ~brute_force THEN [err |-> NotSupported, val |-> <<>>]
       ELSE Result(IterateSteps(first, 1, input # first, iterations, w, offset,
                                center_is_true, border_value, invert))

binary_erosion(input, structure, iterations, brute_force) ==
    binary_erosion_impl(input, structure, iterations, 0, 0, FALSE, brute_force)

\* the structure is reversed unless it is the default, the origin moved for even lengths
binary_dilation(input, structure, iterations, brute_force) ==
    LET w == IF structure.given THEN structure.w ELSE generate_binary_structure
        flipped == IF structure.given THEN [given |-> TRUE, w |-> Reverse(w)] ELSE structure
        origin == IF Len(w) % 2 = 0 THEN -1 ELSE 0
    IN binary_erosion_impl(input, flipped, iterations, 0, origin, TRUE, brute_force)

\* image length, structure length and number of iterations
MorphLen == 4
MaxStructure == 3
MaxIterations == 3

Images == [1..MorphLen -> {0, 1, 2}]

Structures ==
    {NoStructure} \cup {[given |-> TRUE, w |-> w] : w \in SeqsUpTo({0, 1}, MaxStructure) \ {<<>>}}

MorphCall(name, input, structure, iterations, brute_force) ==
    [NoCall EXCEPT !.op = name,
                   !.src = [input |-> input, structure |-> structure,
                            iterations |-> iterations, brute_force |-> brute_force]]

BinaryErosion ==
    /\ pc = "idle"
    /\ \E input \in Images : \E structure \in Structures :
          \E iterations \in 1..MaxIterations : \E brute_force \in BOOLEAN :
             /\ out' = binary_erosion(input, structure, iterations, brute_force)
             /\ last' = MorphCall("binary_erosion", input, structure, iterations, brute_force)
    /\ pc' = "done"
    /\ UNCHANGED <<idx, col_counts, col_order, col_offset, Bp, Bj, Bx, row_ptr, lane, writes,
                   out_shape>>
    /\ UNCHANGED mvars

BinaryDilation ==
    /\ pc = "idle"
    /\ \E input \in Images : \E structure \in Structures :
          \E iterations \in 1..MaxIterations : \E brute_force \in BOOLEAN :
             /\ out' = binary_dilation(input, structure, iterations, brute_force)
             /\ last' = MorphCall("binary_dilation", input, structure, iterations, brute_force)
    /\ pc' = "done"
    /\ UNCHANGED <<idx, col_counts, col_order, col_offset, Bp, Bj, Bx, row_ptr, lane, writes,
                   out_shape>>
    /\ UNCHANGED mvars

NextMorph == BinaryErosion \/ BinaryDilation \/ Return

SpecMorph == InitEmpty /\ [][NextMorph]_vars

(***************************************************************************)
(* The iteration of _binary_erosion statement by statement, with a mask    *)
(* and a border value: while the call runs pc is "loop" and out holds      *)
(* tmp_out, ii and changed.                                                *)
(***************************************************************************)
\* mask=None
NoMask == [given |-> FALSE, m |-> <<>>]

\* the kernel with its masked prologue: a pixel outside the mask keeps its value
erode_kernel_masked(x, mask, w, offset, center_is_true, border_value, invert) ==
    LET y == erode_kernel(x, w, offset, center_is_true, border_value, invert)
    IN [p \in 1..Len(x) |-> IF mask.given /\ mask.m[p] = 0 THEN AsBool(x[p]) ELSE y[p]]

\* what binary_erosion and binary_dilation hand to _binary_erosion
kernel_args(name, a) ==
    LET w0 == IF a.structure.given THEN a.structure.w ELSE generate_binary_structure
        dilation == name = "binary_dilation"
        w == IF dilation /\ a.structure.given THEN Reverse(w0) ELSE w0
        origin == IF dilation /\ Len(w) % 2 = 0 THEN -1 ELSE 0
    IN [w |-> w, offset |-> (Len(w) \div 2) + origin, invert |-> dilation,
        center_is_true |-> (\A k \in 1..Len(w) : w[k] # 0)
                              \/ w[origin + (Len(w) \div 2) + 1] # 0]

\* one launch of erode_kernel
erode(name, a, x) ==
    LET g == kernel_args(name, a)
    IN erode_kernel_masked(x, a.mask, g.w, g.offset, g.center_is_true,
                           a.border_value, g.invert)

\* ii counts without bound; the loop reads only ii < iterations and ii & 1, so
\* from MaxII on the model keeps its parity
MaxII == 5

Incr(ii) == IF ii + 1 > MaxII THEN ii - 1 ELSE ii + 1

\* iterations < 1: repeat until nothing changes
LoopIterations == {-1, 0}

Masks == {NoMask} \cup {[given |-> TRUE, m |-> m] : m \in [1..MorphLen -> {0, 1}]}

BoolImages == [1..MorphLen -> {0, 1}]

\* the call up to the first launch and the first 'changed'
IterStart ==
    /\ pc = "idle"
    /\ \E name \in {"binary_erosion", "binary_dilation"} :
          \E input \in BoolImages : \E structure \in Structures : \E mask \in Masks :
          \E border_value \in {0, 1} : \E iterations \in LoopIterations :
          \E brute_force \in BOOLEAN :
             LET a == [input |-> input, structure |-> structure, mask |-> mask,
                       border_value |-> border_value, iterations |-> iterations,
                       brute_force |-> brute_force]
                 first == erode(name, a, input)
             IN /\ last' = [NoCall EXCEPT !.op = name, !.src = a]
                /\ IF kernel_args(name, a).center_is_true /\ ~brute_force
                   THEN /\ out' = [err |-> NotSupported, val |-> <<>>, ii |-> 0,
                                   changed |-> FALSE]
                        /\ pc' = "done"
                   ELSE /\ out' = [err |-> NoError, val |-> first, ii |-> 1,
                                   changed |-> input # first]
                        /\ pc' = "loop"
    /\ UNCHANGED <<idx, col_counts, col_order, col_offset, Bp, Bj, Bx, row_ptr, lane, writes,
                   out_shape>>
    /\ UNCHANGED mvars

\* the condition of the while statement
LoopCondition ==
    out.ii < last.src.iterations \/ (last.src.iterations < 1 /\ out.changed)

\* one pass of the body, leaving by break when nothing changed and ii is even
IterStep ==
    /\ pc = "loop"
    /\ LoopCondition
    /\ LET stepped == erode(last.op, last.src, out.val)
           changed == stepped # out.val
           ii == Incr(out.ii)
       IN /\ out' = [out EXCEPT !.val = stepped, !.ii = ii, !.changed = changed]
          /\ pc' = IF ~changed /\ ii % 2 = 0 THEN "done" ELSE "loop"
    /\ UNCHANGED <<idx, col_counts, col_order, col_offset, Bp, Bj, Bx, row_ptr, lane, writes,
                   out_shape, last>>
    /\ UNCHANGED mvars

\* the while condition is false: output = tmp_out
IterExit ==
    /\ pc = "loop"
    /\ ~LoopCondition
    /\ pc' = "done"
    /\ UNCHANGED <<idx, col_counts, col_order, col_offset, Bp, Bj, Bx, row_ptr, lane, writes,
                   out_shape, last, out>>
    /\ UNCHANGED mvars

NextIter == IterStart \/ IterStep \/ IterExit \/ Return

\* the statements of one call run one after the other: a call that can take its
\* next step takes it
SpecIter ==
    /\ InitEmpty
    /\ [][NextIter]_vars
    /\ WF_vars(IterStep)
    /\ WF_vars(IterExit)

(***************************************************************************)
(* The entry IDs of a large matrix: what the existence lookup of _set_many *)
(* and _zero_many returns for the coordinate stored at offset p of a       *)
(* canonical matrix, whose lookup finds the one ID of that entry.          *)
(***************************************************************************)
\* element p of cupy.arange(nnz, dtype=cupy.float32), looked up and cast to int32
offset_of(p) == AsInt32(Float32(Float32(p)))

\* the offsets looked at: the first ones and those around 2^Float32Bits
IdSpan == 60

IdOffsets == (0..IdSpan) \cup ((2^Float32Bits - IdSpan)..(2^Float32Bits + IdSpan))

LookupId ==
    /\ pc = "idle"
    /\ \E p \in IdOffsets :
          /\ out' = [p |-> p, offset |-> offset_of(p)]
          /\ last' = [NoCall EXCEPT !.op = "lookup_id"]
    /\ pc' = "done"
    /\ UNCHANGED <<idx, col_counts, col_order, col_offset, Bp, Bj, Bx, row_ptr, lane, writes,
                   out_shape>>
    /\ UNCHANGED mvars

NextId == LookupId \/ Return

SpecId == InitEmpty /\ [][NextId]_vars

(***************************************************************************)
(* Vocabulary of the properties                                            *)
(***************************************************************************)
Norm(v, bound) == IF v < 0 THEN v + bound ELSE v

\* the coordinate the k-th element of the last call's batch names
LastCoord(k) == <<Norm(last.i[k], M), Norm(last.j[k], N)>>

LastCoords == {LastCoord(k) : k \in 1..Len(last.i)}

LastDistinct ==
    \A k1, k2 \in 1..Len(last.i) : k1 # k2 => LastCoord(k1) # LastCoord(k2)

Coords == (0..(M - 1)) \X (0..(N - 1))

Stored(A, rc) == Offsets(A, rc[1], rc[2]) # {}

Get(A, rc) == get_intXint(A, rc[1], rc[2])

\* the coordinate of the entry stored at offset p
CoordOf(A, p) ==
    <<CHOOSE r \in 0..(Len(A.indptr) - 2) : p \in RowRange(A.indptr, r), At(A.indices, p)>>

IsCanonical(A) == has_canonical_format_kern(A.indptr, A.indices)

Ran(op) == pc = "done" /\ last.op = op /\ last.err = NoError

InRange(s, bound) == \A k \in 1..Len(s) : -bound <= s[k] /\ s[k] < bound

StructureOK == WellFormed(Self, M, N)

\* C1: the structural invariants hold in every state reached by batch set,
\* batch zero, batch insert (through batch set) and sum_duplicates, and every
\* matrix returned by minor outer indexing satisfies them for its own shape
C1_Invariants ==
    /\ StructureOK
    /\ Ran("minor_index_fancy") => WellFormed(Out, out_shape[1], out_shape[2])

\* an insertion has grown the matrix, and indexing it has returned stored entries
C1_Witness ==
    /\ Ran("minor_index_fancy")
    /\ nnz(Self) > MaxInitNnz
    /\ nnz(Out) > nnz(Self)
    /\ WellFormed(Out, M, Len(idx))

\* C2: after a batch set of pairwise distinct in-range coordinates on a canonical
\* matrix, scalar get returns x_k at every coordinate of the batch and the value
\* it returned before the call at every other coordinate
C2_SetThenGet ==
    (Ran("set") /\ IsCanonical(last.pre) /\ LastDistinct) =>
        /\ \A k \in 1..Len(last.i) : Get(Self, LastCoord(k)) = last.x[k]
        /\ \A rc \in Coords \ LastCoords : Get(Self, rc) = Get(last.pre, rc)

\* a batch of one stored and one absent coordinate, a third entry left alone
C2_Witness ==
    /\ Ran("set") /\ IsCanonical(last.pre) /\ LastDistinct
    /\ Len(last.i) = 2
    /\ \E k1, k2 \in 1..2 : Stored(last.pre, LastCoord(k1)) /\ ~Stored(last.pre, LastCoord(k2))
    /\ \E rc \in Coords \ LastCoords : Stored(last.pre, rc) /\ Get(last.pre, rc) # 0

\* the number of entries stored by A at (r, c) with value v
CountAt(A, r, c, v) ==
    Cardinality({p \in RowRange(A.indptr, r) : At(A.indices, p) = c /\ At(A.data, p) = v})

\* the write phase of fill_B is running or has run
InWrite == pc = "fill_B" \/ (Ran("minor_index_fancy") /\ lane # <<>>)

\* C3: the result of minor outer indexing stores, for each stored source entry
\* (r, m, v) and each position k with idx[k] = m, exactly one entry (r, k, v)
\* and nothing else, so result[r, k] = source[r, idx[k]], whatever the order in
\* which the threads ran
C3_MinorOuterIndexing ==
    Ran("minor_index_fancy") =>
        /\ out_shape = <<M, Len(idx)>>
        /\ Len(Bp) = M + 1
        /\ Len(Bj) = Len(Bx)
        /\ At(Bp, M) = Len(Bj)
        /\ \A q \in 1..Len(Bj) : Bj[q] \in 0..(Len(idx) - 1)
        /\ \A r \in 0..(M - 1) : \A k \in 0..(Len(idx) - 1) :
              /\ \A v \in FancyValues \cup {-1} :
                    CountAt(Out, r, k, v) = CountAt(last.pre, r, At(idx, k), v)
              /\ Get(Out, <<r, k>>) = Get(last.pre, <<r, At(idx, k)>>)

\* the example of the specification: (0,1)=5 and (1,2)=6 indexed with [1,1,2]
C3_Witness ==
    /\ Ran("minor_index_fancy")
    /\ last.pre = Mat(<<0, 1, 2>>, <<1, 2>>, <<5, 6>>)
    /\ idx = <<1, 1, 2>>
    /\ Get(Out, <<0, 0>>) = 5
    /\ Get(Out, <<0, 1>>) = 5
    /\ Get(Out, <<1, 2>>) = 6
    /\ nnz(Out) = 3

\* C4: in the write phase the slot ranges [my_out, my_out + cnt) reserved with
\* the fetch-and-add cursor are pairwise disjoint and lie inside the row's range
\* [Bp[r], Bp[r+1]); no slot is written twice; when the kernel has finished the
\* ranges of a row cover its range exactly and every slot was written once
C4_SlotRanges ==
    InWrite =>
        /\ \A p \in 0..(nnz(Self) - 1) : Reserved(p) \subseteq RowRange(Bp, RowOfEntry(p))
        /\ \A p1, p2 \in 0..(nnz(Self) - 1) :
              p1 # p2 => Reserved(p1) \cap Reserved(p2) = {}
        /\ \A q \in 1..Len(writes) : writes[q] <= 1
        /\ pc = "done" =>
              /\ \A r \in 0..(M - 1) :
                    UNION {Reserved(p) : p \in RowRange(indptr, r)} = RowRange(Bp, r)
              /\ \A q \in 1..Len(writes) : writes[q] = 1

\* two threads of one row reserved in the order opposite to their entries
C4_Witness ==
    /\ Ran("minor_index_fancy")
    /\ lane # <<>>
    /\ \E p1, p2 \in 0..(nnz(Self) - 1) :
          /\ p1 < p2
          /\ RowOfEntry(p1) = RowOfEntry(p2)
          /\ Reserved(p1) # {}
          /\ Reserved(p2) # {}
          /\ At(lane, p2).my_out < At(lane, p1).my_out
          /\ \A q \in 1..Len(writes) : writes[q] = 1

\* C5: while a batch insertion replaces the arrays, the matrix a reader sees is
\* either the three old arrays or the three new ones
C5_AtomicReplace ==
    pc \in InsertSteps => (Self = last.mid \/ Self = pend)

\* C6: a batch insertion leaves exactly one stored entry at every coordinate it
\* inserts, holding the last value the batch gives it; a coordinate an earlier
\* batch inserted is overwritten in place by a later batch (one entry, the later
\* value); nnz grows by the number of coordinates that had no stored entry
C6_LastWriteWins ==
    Ran("set") =>
        /\ nnz(Self) = nnz(last.pre)
                       + Cardinality({rc \in LastCoords : ~Stored(last.pre, rc)})
        /\ \A k \in 1..Len(last.i) :
              LET rc == LastCoord(k)
                  isLast == \A k2 \in (k + 1)..Len(last.i) : LastCoord(k2) # rc
                  isOnly == \A k2 \in 1..Len(last.i) : k2 # k => LastCoord(k2) # rc
                  before == Cardinality(Offsets(last.pre, rc[1], rc[2]))
              IN (isLast /\ (before = 0 \/ (isOnly /\ before = 1))) =>
                    /\ Cardinality(Offsets(Self, rc[1], rc[2])) = 1
                    /\ Get(Self, rc) = last.x[k]

\* a batch that overwrites a coordinate inserted by an earlier batch with another
\* value and inserts a new one
C6_Witness ==
    /\ Ran("set") /\ Len(last.i) = 2 /\ LastDistinct
    /\ \E k1, k2 \in 1..2 :
          /\ Stored(last.pre, LastCoord(k1))
          /\ Get(last.pre, LastCoord(k1)) \in XValues \ {last.x[k1]}
          /\ ~Stored(last.pre, LastCoord(k2))
    /\ nnz(Self) = nnz(last.pre) + 1

\* C7: batch set and batch zero raise the index error exactly when a major index
\* is outside [-M, M) or a minor index outside [-N, N), and then leave data,
\* indices and indptr as they were
C7_BoundsError ==
    (pc = "done" /\ last.op \in {"set", "zero"}) =>
        /\ (last.err.kind = "IndexError") <=> ~(InRange(last.i, M) /\ InRange(last.j, N))
        /\ last.err # NoError => Self = last.pre

\* a batch whose first coordinate is stored and valid and whose second is out of range
C7_Witness ==
    /\ pc = "done" /\ last.op \in {"set", "zero"}
    /\ last.err.kind = "IndexError"
    /\ Len(last.i) = 2
    /\ InRange(<<last.i[1]>>, M) /\ InRange(<<last.j[1]>>, N)
    /\ Stored(last.pre, LastCoord(1))
    /\ last.j[2] = -N - 1

\* C8: batch zero leaves indices, indptr and nnz unchanged, zeroes the data of
\* every stored entry whose coordinate is in the batch and keeps every other value
C8_ZeroFrame ==
    Ran("zero") =>
        /\ indices = last.pre.indices
        /\ indptr = last.pre.indptr
        /\ Len(data) = Len(last.pre.data)
        /\ \A p \in 0..(Len(data) - 1) :
              At(data, p) = IF CoordOf(last.pre, p) \in LastCoords
                            THEN 0 ELSE At(last.pre.data, p)

\* C9: a batch set whose coordinates are all stored changes data only, and only
\* at entries of those coordinates, without a warning; the warning and the
\* insertion happen exactly when a coordinate is absent, and only the absent
\* coordinates get a new entry
C9_SetFrame ==
    Ran("set") =>
        /\ (\A rc \in LastCoords : Stored(last.pre, rc)) =>
              /\ indices = last.pre.indices
              /\ indptr = last.pre.indptr
              /\ Len(data) = Len(last.pre.data)
              /\ \A p \in 0..(Len(data) - 1) :
                    CoordOf(last.pre, p) \notin LastCoords =>
                        At(data, p) = At(last.pre.data, p)
        /\ last.warned <=> (\E rc \in LastCoords : ~Stored(last.pre, rc))
        /\ last.warned <=> (indptr # last.pre.indptr)
        /\ \A rc \in Coords :
              Cardinality(Offsets(Self, rc[1], rc[2])) =
                 Cardinality(Offsets(last.pre, rc[1], rc[2]))
                 + (IF rc \in LastCoords /\ ~Stored(last.pre, rc) THEN 1 ELSE 0)

SetMax(S) == CHOOSE v \in S : \A w \in S : w <= v

SetMin(S) == CHOOSE v \in S : \A w \in S : v <= w

Extreme(ufunc, S) == IF ufunc = "amax" THEN SetMax(S) ELSE SetMin(S)

StoredValues(A, r) == {At(A.data, p) : p \in RowRange(A.indptr, r)}

StoredCount(A, r) == Cardinality(RowRange(A.indptr, r))

NoStoredNaN(A) == \A k \in 1..Len(A.data) : ~IsNaN(A.data[k])

\* C10: for every row of a canonical matrix that stores no NaN, the reduction over
\* all positions is the min/max of the stored values, together with 0 when the
\* row stores fewer values than its length; the nonzero-only reduction of a row
\* that stores at least one value is the min/max of the stored values alone
C10_MinMax ==
    (Ran("minor_reduce") /\ IsCanonical(Self) /\ NoStoredNaN(Self)) =>
        \A r \in 0..(M - 1) :
            IF last.nonzero
            THEN StoredCount(Self, r) > 0 =>
                     At(out, r) = Extreme(last.ufunc, StoredValues(Self, r))
            ELSE At(out, r) =
                     Extreme(last.ufunc,
                             IF StoredCount(Self, r) < N
                             THEN StoredValues(Self, r) \cup {0}
                             ELSE StoredValues(Self, r))

\* the example of the specification, over all positions: stored values [-1, -3]
\* in a 5-wide row give max 0, and a second, empty row gives 0
C10_Witness ==
    /\ Ran("minor_reduce")
    /\ N = 5
    /\ last.ufunc = "amax"
    /\ ~last.nonzero
    /\ data = <<-1, -3>>
    /\ indptr = <<0, 2, 2>>
    /\ out = <<0, 0>>

HasStoredNaN(A, r) == \E p \in RowRange(A.indptr, r) : IsNaN(At(A.data, p))

\* C11: min and max, over all positions and nonzero-only, return NaN for a row
\* exactly when the row stores a NaN, wherever it is stored
C11_NaNPropagation ==
    Ran("minor_reduce") =>
        \A r \in 0..(M - 1) : IsNaN(At(out, r)) <=> HasStoredNaN(Self, r)

\* min over all positions of a row that stores NaN last, after two other values,
\* beside a row without NaN
C11_Witness ==
    /\ Ran("minor_reduce")
    /\ last.ufunc = "amin"
    /\ ~last.nonzero
    /\ indptr = <<0, 3, 3>>
    /\ data = <<-3, 2, NaN>>
    /\ out = <<NaN, 0>>

\* what the two properties return in the current state
ReadsCanonical == get_has_canonical_format(Self, sortedFlag, canonFlag)

ReadsSorted == get_sorted(Self, sortedFlag)

\* C12: sum_duplicates leaves data, indices and indptr as they are when
\* has_canonical_format read True before the call; after every call both
\* properties read True; a second call right after leaves the arrays unchanged
C12_SumDuplicatesIdempotent ==
    Ran("sum_duplicates") =>
        /\ get_has_canonical_format(last.pre, last.sf, last.cf) = "True" => Self = last.pre
        /\ ReadsCanonical = "True"
        /\ ReadsSorted = "True"
        /\ sum_duplicates(Self, sortedFlag, canonFlag).mat = Self

\* a call that merged duplicates while the sorted flag was cached False
C12_Witness ==
    /\ Ran("sum_duplicates")
    /\ nnz(Self) < nnz(last.pre)
    /\ last.sf = "False"
    /\ sum_duplicates(Self, sortedFlag, canonFlag).mat = Self
    /\ ReadsCanonical = "True"

\* C13: in every state, if has_canonical_format reads True then has_sorted_indices
\* reads True; so when has_sorted_indices reads False, has_canonical_format
\* reads False
C13_CanonicalImpliesSorted ==
    /\ ReadsCanonical = "True" => ReadsSorted = "True"
    /\ ReadsSorted = "False" => ReadsCanonical = "False"

\* the canonical flag was written True and the sorted flag False afterwards, on
\* a matrix that stores entries: has_canonical_format reads False
C13_Witness ==
    /\ nnz(Self) > 0
    /\ canonFlag = "True"
    /\ sortedFlag = "False"
    /\ ReadsSorted = "False"
    /\ ReadsCanonical = "False"

\* the cached flags are Unknown or what a read computes from the arrays of A
Agrees(A, sf, cf) ==
    /\ sf \in {"Unknown", IF nnz(A) = 0 THEN "True"
                          ELSE FlagOf(has_sorted_indices_kern(A.indptr, A.indices))}
    /\ cf \in {"Unknown", IF nnz(A) = 0 THEN "True"
                          ELSE FlagOf(has_canonical_format_kern(A.indptr, A.indices))}

WriteStarted ==
    \/ \E r \in 1..Len(row_ptr) : row_ptr[r] # -1
    \/ \E p \in 1..Len(lane) : lane[p].st # "ready"
    \/ \E q \in 1..Len(writes) : writes[q] > 0
    \/ \E q \in 1..Len(Bj) : Bj[q] # -1 \/ Bx[q] # -1

\* C15: the phases of minor outer indexing run in the order count, prefix sum,
\* write: once fill_B has started, the histogram of all of idx, col_offset and
\* the index pointer of the result are complete for all rows; and a thread has
\* advanced the cursor of its row only after the cursor was seeded with Bp[row],
\* so the cursor is Bp[row] plus the counts reserved so far
C15_PhaseOrder ==
    /\ WriteStarted =>
          /\ col_counts = bincount(idx, N)
          /\ col_offset = cumsum(col_counts)
          /\ col_order = [k \in 1..Len(idx) |-> argsort(idx)[k] - 1]
          /\ Bp = <<0>> \o cumsum(row_kept_count(indptr, indices, col_counts))
          /\ Len(Bj) = At(Bp, M)
    /\ \A r \in 0..(Len(row_ptr) - 1) :
          LET reserved == {p \in RowRange(indptr, r) : At(lane, p).st # "ready"}
          IN IF At(row_ptr, r) = -1
             THEN reserved = {}
             ELSE At(row_ptr, r) =
                     At(Bp, r) + SumSeq([k \in 1..Len(SortedSeqOf(reserved)) |->
                                            run_cnt(At(indices, SortedSeqOf(reserved)[k]))])

\* a thread of one row has written its slots while the cursor of another row,
\* which also stores entries, is not seeded yet
C15_Witness ==
    /\ pc = "fill_B"
    /\ \E p \in 0..(nnz(Self) - 1) :
          /\ At(lane, p).st = "done"
          /\ Reserved(p) # {}
          /\ \E r \in 0..(M - 1) :
                /\ r # RowOfEntry(p)
                /\ RowRange(indptr, r) # {}
                /\ At(row_ptr, r) = -1

\* the value of the broadcast source at position (a, b) of the region
SourceAt(x, a, b) ==
    LET sa == IF x.shape[1] = 1 THEN 0 ELSE a
        sb == IF x.shape[2] = 1 THEN 0 ELSE b
    IN SumSeq([k \in 1..Len(x.row) |->
                  IF x.row[k] = sa /\ x.col[k] = sb THEN x.data[k] ELSE 0])

\* C16: a sparse assignment completes for every source, the batch it sets holds
\* every stored source value once per region position it is broadcast to, and
\* afterwards every position of the region reads as the broadcast source there
C16_SparseAssign ==
    (pc = "done" /\ last.op = "assign") =>
        /\ last.err = NoError
        /\ \A a \in 0..(Len(last.row) - 1) : \A b \in 0..(Len(last.row[1]) - 1) :
              LET rc == <<last.row[a + 1][b + 1], last.col[a + 1][b + 1]>>
                  hits == {k \in 1..Len(last.i) : <<last.i[k], last.j[k]>> = rc}
                  stored == \E k \in 1..Len(last.src.row) :
                               /\ last.src.row[k] = (IF last.src.shape[1] = 1 THEN 0 ELSE a)
                               /\ last.src.col[k] = (IF last.src.shape[2] = 1 THEN 0 ELSE b)
              IN /\ Cardinality(hits) = (IF stored THEN 1 ELSE 0)
                 /\ \A k \in hits : last.x[k] = SourceAt(last.src, a, b)
                 /\ Get(Self, rc) = SourceAt(last.src, a, b)

\* C17: adding or subtracting a nonzero scalar raises the not-supported error;
\* the zero scalar gives a new matrix equal to A for A + 0, 0 + A and A - 0 and
\* the negation of A for 0 - A; the matrix itself is unchanged either way
C17_ScalarAdd ==
    (pc = "done" /\ last.op \in {f.name : f \in ScalarOps}) =>
        /\ Self = last.pre
        /\ last.x[1] # 0 => out.err = NotSupported
        /\ last.x[1] = 0 =>
              /\ out.err = NoError
              /\ ~out.is_self
              /\ out.mat.indptr = last.pre.indptr
              /\ out.mat.indices = last.pre.indices
              /\ Len(out.mat.data) = Len(last.pre.data)
              /\ \A k \in 1..Len(last.pre.data) :
                    out.mat.data[k] = (IF last.op = "__rsub__" THEN 0 - last.pre.data[k]
                                       ELSE last.pre.data[k])

\* 0 - A on a matrix with stored entries
C17_Witness ==
    /\ pc = "done"
    /\ last.op = "__rsub__"
    /\ last.x = <<0>>
    /\ Len(last.pre.data) > 0
    /\ out.err = NoError

\* the major dimension of a shape in a format, and the scalar type a construction uses
MajorDim(format, sh) == IF format = "csc" THEN sh[2] ELSE sh[1]

ScalarType(a) ==
    IF a.dtype # None THEN a.dtype ELSE IF a.kind = "shape" THEN "d" ELSE a.data_dtype

Rejected == out.err.kind = "ValueError" /\ ~out.made

\* C18: construction raises a value error and makes no matrix when the index
\* pointer's length differs from major_dim + 1 for the given shape, when the scalar
\* type is not bool, float32, float64, complex64 or complex128, or when a triple
\* has len(data) # len(indices); a construction from a shape alone makes a matrix
\* with no stored entries and an all-zero index pointer of length major_dim + 1
C18_Construction ==
    (pc = "done" /\ last.op = "__init__") =>
        LET a == last.src
        IN /\ (a.kind = "triple" /\ a.shape # NoShape
                  /\ Len(a.indptr) # MajorDim(a.format, a.shape) + 1) => Rejected
           /\ ScalarType(a) \notin {"?", "f", "d", "F", "D"} => Rejected
           /\ (a.kind = "triple" /\ Len(a.data) # Len(a.indices)) => Rejected
           /\ (a.kind = "shape" /\ ScalarType(a) \in {"?", "f", "d", "F", "D"}) =>
                 /\ out.made
                 /\ Len(out.mat.data) = 0
                 /\ Len(out.mat.indices) = 0
                 /\ Len(out.mat.indptr) = MajorDim(a.format, a.arg1) + 1
                 /\ \A k \in 1..Len(out.mat.indptr) : out.mat.indptr[k] = 0
                 /\ out.shape = a.arg1

\* a csc triple rejected only for its index pointer's length
C18_Witness ==
    /\ pc = "done"
    /\ last.op = "__init__"
    /\ last.src.kind = "triple"
    /\ last.src.format = "csc"
    /\ last.src.shape = <<1, 2>>
    /\ Len(last.src.indptr) = 2
    /\ Len(last.src.data) = Len(last.src.indices)
    /\ ScalarType(last.src) = "f"
    /\ Rejected

\* C19: argmin and argmax report index 0 for every row that stores a NaN,
\* wherever the NaN is stored and whatever else the row stores
C19_ArgNaN ==
    Ran("arg_minor_reduce") =>
        \A r \in 0..(M - 1) : HasStoredNaN(Self, r) => At(out, r) = 0

\* argmax of a row that stores 2 at column 0 and NaN after it, at column 3
C19_Witness ==
    /\ Ran("arg_minor_reduce")
    /\ last.ufunc = "argmax"
    /\ indptr = <<0, 2, 2>>
    /\ indices = <<0, 3>>
    /\ data = <<2, NaN>>
    /\ out = <<0, 0>>

\* one call with iterations = 1, applied n times in succession
RECURSIVE SingleSteps(_, _, _, _)
SingleSteps(name, x, structure, n) ==
    IF n = 0 THEN x
    ELSE LET single == IF name = "binary_erosion"
                       THEN binary_erosion(x, structure, 1, FALSE)
                       ELSE binary_dilation(x, structure, 1, FALSE)
         IN SingleSteps(name, single.val, structure, n - 1)

\* C20: binary_erosion and binary_dilation with iterations = n >= 1 and the other
\* arguments at their defaults return what n single steps in succession return,
\* for every structure
C20_Iterations ==
    (pc = "done" /\ last.op \in {"binary_erosion", "binary_dilation"}
                 /\ ~last.src.brute_force) =>
        /\ out.err = NoError
        /\ out.val = SingleSteps(last.op, last.src.input, last.src.structure,
                                 last.src.iterations)

\* C21: with iterations < 1 the loop of binary_erosion and binary_dilation ends
\* for every input, structure, mask and border value
C21_Terminates == (pc = "loop") ~> (pc = "done")

\* the coordinates of the last batch that had no stored entry, each once: the
\* entries a batch set inserts after de-duplication
Kept == {rc \in LastCoords : ~Stored(last.pre, rc)}

\* C22: after a batch insertion the stored count of every row is its previous count
\* plus the number of kept inserted entries of that row, new_indptr[0] = 0, and
\* len(data) = len(indices) = new_indptr[major_dim] = old nnz + kept entries
C22_RowCounts ==
    (Ran("set") /\ last.warned) =>
        /\ \A r \in 0..(M - 1) :
              At(indptr, r + 1) - At(indptr, r) =
                  (At(last.pre.indptr, r + 1) - At(last.pre.indptr, r))
                      + Cardinality({rc \in Kept : rc[1] = r})
        /\ At(indptr, 0) = 0
        /\ Len(data) = Len(indices)
        /\ Len(data) = At(indptr, M)
        /\ Len(data) = nnz(last.pre) + Cardinality(Kept)

\* a batch that names one absent coordinate twice, inserted into a row that
\* already stores an entry
C22_Witness ==
    /\ Ran("set") /\ last.warned
    /\ Len(last.i) = 2
    /\ Cardinality(Kept) = 1
    /\ \E rc \in Kept : At(last.pre.indptr, rc[1] + 1) - At(last.pre.indptr, rc[1]) > 0
    /\ nnz(Self) = nnz(last.pre) + 1

RowsSorted(A) == has_sorted_indices_kern(A.indptr, A.indices)

\* C23: when every row is sorted before a batch insertion of coordinates without
\* stored entry, every row is sorted afterwards, every entry stored before is still
\* stored at its coordinate with its value, and every inserted coordinate holds
\* one entry, in its own row
C23_InsertKeepsOrder ==
    (Ran("set") /\ last.warned /\ RowsSorted(last.mid)) =>
        /\ RowsSorted(Self)
        /\ \A p \in 0..(nnz(last.mid) - 1) :
              LET rc == CoordOf(last.mid, p)
                  v == At(last.mid.data, p)
              IN CountAt(Self, rc[1], rc[2], v) = CountAt(last.mid, rc[1], rc[2], v)
        /\ \A rc \in Kept :
              /\ Cardinality(Offsets(Self, rc[1], rc[2])) = 1
              /\ \E k \in 1..Len(last.i) : LastCoord(k) = rc /\ Get(Self, rc) = last.x[k]

\* two entries inserted, one of them in front of the entry its row already stored
C23_Witness ==
    /\ Ran("set") /\ last.warned /\ RowsSorted(last.mid)
    /\ Cardinality(Kept) = 2
    /\ \E rc \in Kept : \E p \in RowRange(last.mid.indptr, rc[1]) :
          /\ At(last.mid.indices, p) > rc[2]
          /\ At(last.mid.data, p) # 0
          /\ Get(Self, <<rc[1], At(last.mid.indices, p)>>) = At(last.mid.data, p)
    /\ RowsSorted(Self)

\* C24: for every row without stored entries min and max, in both modes, return
\* 0 and argmin and argmax return index 0, whatever the row length, zero
\* included, and the kernel reads no element of data or indices for that row
C24_EmptyRows ==
    Ran("kernel") =>
        \A r \in 0..(M - 1) :
            StoredCount(Self, r) = 0 =>
                /\ At(out, r).z = 0
                /\ At(out, r).data_reads = {}
                /\ At(out, r).seed_reads = {}
                /\ At(out, r).gap_reads = {}

\* the values of row r at every position, implicit zeros included
DenseRow(A, r) == [c \in 1..N |-> Get(A, <<r, c - 1>>)]

\* the smallest position at which the row attains its maximum (minimum)
FirstExtreme(ufunc, row) ==
    LET vals == {row[c] : c \in 1..Len(row)}
        best == IF ufunc = "argmax" THEN SetMax(vals) ELSE SetMin(vals)
    IN SetMin({c \in 1..Len(row) : row[c] = best}) - 1

\* C27: for every row of a canonical matrix that stores no NaN, stored zeros
\* allowed, argmax (argmin) returns the smallest minor index at which the dense
\* row attains its maximum (minimum)
C27_ArgExtreme ==
    (Ran("kernel") /\ last.ufunc \in {"argmax", "argmin"} /\ N > 0) =>
        \A r \in 0..(M - 1) :
            ~HasStoredNaN(Self, r) => At(out, r).z = FirstExtreme(last.ufunc, DenseRow(Self, r))

\* C28: the search for the first position without entry reads indices only at
\* offsets of the row's own range [indptr[r], indptr[r+1])
C28_GapScanReads ==
    (Ran("kernel") /\ last.ufunc \in {"argmax", "argmin"}) =>
        \A r \in 0..(M - 1) : At(out, r).gap_reads \subseteq RowRange(indptr, r)

\* C25: on a canonical matrix of any size the existence lookup returns, for the
\* coordinate stored at offset p, exactly p: the entry IDs survive float32
C25_EntryIds == Ran("lookup_id") => out.offset = out.p

\* C26: a read of has_canonical_format that returns True while the sorted flag
\* is not cached leaves the sorted flag cached True
C26_ReadSetsSorted ==
    [][(GetHasCanonicalFormat /\ sortedFlag = "Unknown" /\ canonFlag' = "True")
          => sortedFlag' = "True"]_vars

\* C30: as long as the caller writes no flag, a cached flag is Unknown or what
\* the per-row check computes from the current arrays, so both properties read
\* as recomputed
C30_FlagsFresh ==
    /\ Agrees(Self, sortedFlag, canonFlag)
    /\ ReadsSorted = get_sorted(Self, "Unknown")
    /\ ReadsCanonical = get_has_canonical_format(Self, "Unknown", "Unknown")

\* both flags cached by reads on a matrix with a duplicate entry, then a batch set
\* has inserted into it
C30_Witness ==
    /\ Ran("set")
    /\ last.warned
    /\ last.sf = "True"
    /\ last.cf = "False"
    /\ sortedFlag = "True"
    /\ canonFlag = "False"
    /\ nnz(Self) > nnz(last.pre)

\* C29: the matrix returned by minor outer indexing of a source with sorted rows
\* has non-decreasing indices within every row, whatever idx and whatever order
\* the threads of a row reserve their slots in
C29_ResultSorted ==
    (Ran("minor_index_fancy") /\ RowsSorted(last.pre)) => RowsSorted(Out)

====
